---------------------------- MODULE Spec2Model ----------------------------
(***************************************************************************)
(* State-machine model of the SIAVPN connection core:                      *)
(*   - VpnSecurityManager   (the security gate, vpnSecurityManager.cpp)    *)
(*   - VpnConnectionManager (the orchestrator, vpnConnectionManager.cpp)   *)
(*     with its OpenVpnClient (openVpnClient.cpp) and VpnConfigManager     *)
(*   - OpenVpnProtocol      (the OpenVPN3 wrapper, openVpnProtocol.cpp)    *)
(* The specifications share one initial state (all objects freshly         *)
(* constructed): GateSpec drives the gate, Spec drives the connection      *)
(* manager, ProtoSpec drives the protocol wrapper; TeardownSpec adds the   *)
(* manager's destructor, ControllerSpec the presentation layer's           *)
(* connectVpn, and ClientSpec, HandlerSpec and ValidateSpec drive the      *)
(* tunnel client, the event handler and validateConfig on their own.       *)
(***************************************************************************)
EXTENDS Naturals, Sequences, FiniteSets, TLC

VARIABLES
    \* ---- VpnSecurityManager
    communicationBlocked,   \* std::atomic<bool> communicationBlocked
    killSwitchEnabled,      \* std::atomic<bool> killSwitchEnabled
    firewall,               \* the filter the platform calls left installed
    gateLog,                \* the public gate operations called so far
    draftCommunicationBlocked,  \* static communicationBlocked of the draft wrapper
    gpc,                    \* per gate-calling thread: position in its call
    \* ---- VpnConnectionManager
    currentStatus,          \* VpnStatus currentStatus
    lastError,              \* std::string lastError
    shouldStop,             \* std::atomic<bool> shouldStop
    connectionInProgress,   \* std::atomic<bool> connectionInProgress
    currentConfig,          \* ClientConfig currentConfig (its content)
    statusMutex,            \* owner of statusMutex, or NoThread
    cvSignal,               \* workers waiting on statusCv with a pending notify
    hasCallback,            \* statusCallback is set
    observer,               \* the status the StatusObserver was handed last
    ucb,                    \* per caller: the callback its updateStatus owes
    upc,                    \* per caller thread: position inside a command
    ucmd,                   \* per caller thread: the command being executed
    uarg,                   \* per caller thread: the path given to connect
    future,                 \* per caller thread: the future of its last connect
    wcb,                    \* per worker: the callback its updateStatus owes
    wpc,                    \* per async worker: position in performConnection
    wst,                    \* per async worker: its locals
    cmdLog,                 \* the commands issued so far
    build,                  \* what locking an owned std::mutex does in this build
    process,                \* "running" or "terminated" (std::terminate)
    \* ---- OpenVpnClient
    isRunning,              \* std::atomic<bool> isRunning
    clientShouldStop,       \* std::atomic<bool> shouldStop
    clientConfig,           \* std::string currentConfig
    clientLastError,        \* std::string lastError
    stateMutex,             \* owner of stateMutex, or NoThread
    ctpc,                   \* connectionThread: position in simulateConnectionProcess
    ctcb,                   \* the callback the client thread's updateStatus owes
    \* ---- OpenVpnProtocol
    p_currentStatus,        \* VpnStatus currentStatus
    p_lastError,            \* std::string lastError
    p_shouldStop,           \* std::atomic<bool> shouldStop
    p_connectionInProgress, \* std::atomic<bool> connectionInProgress
    p_communicationBlocked, \* std::atomic<bool> communicationBlocked
    p_currentConfig,        \* openvpn::ClientAPI::Config currentConfig (content)
    p_statusMutex,          \* owner of statusMutex, or NoThread
    p_cvSignal,             \* the waiter on statusCv has a pending notify
    p_upc,                  \* the caller's position inside a command
    p_uarg,                 \* the path given to connect
    p_wpc,                  \* the async worker's position in performConnection
    p_wst,                  \* the async worker's locals
    p_vt,                   \* vpnThread: position in executeConnectionWorker
    p_libStop,              \* OpenVPNClient::stop() was asked of this session
    p_events,               \* number of events the library has emitted
    p_cmdLog,               \* the commands issued so far
    p_overridden            \* ghost: allowCommunicationWithoutVpn since the last block

gateVars == <<communicationBlocked, killSwitchEnabled, firewall, gateLog,
              draftCommunicationBlocked, gpc>>
mgrVars == <<currentStatus, lastError, shouldStop, connectionInProgress,
             currentConfig, statusMutex, cvSignal, hasCallback, observer, ucb,
             upc, ucmd, uarg, future, wcb, wpc, wst, cmdLog>>
sysVars == <<build, process>>
clientVars == <<isRunning, clientShouldStop, clientConfig, clientLastError,
                stateMutex, ctpc, ctcb>>
protoVars == <<p_currentStatus, p_lastError, p_shouldStop,
               p_connectionInProgress, p_communicationBlocked, p_currentConfig,
               p_statusMutex, p_cvSignal, p_upc, p_uarg, p_wpc, p_wst, p_vt,
               p_libStop, p_events, p_cmdLog, p_overridden>>
vars == <<gateVars, mgrVars, clientVars, sysVars, protoVars>>

-----------------------------------------------------------------------------
(* Bounds of the model *)

MaxGateCalls == 3       \* gate operations called in one run
MaxGateThreads == 2     \* threads calling the gate at once
MaxCmds == 2            \* manager commands issued in one run
MaxWorkers == 2         \* async workers that may be alive at once

-----------------------------------------------------------------------------
(* VpnStatus *)

Disconnected == "Disconnected"
Connecting == "Connecting"
Connected == "Connected"
Error == "Error"
VpnStatus == {Disconnected, Connecting, Connected, Error}

-----------------------------------------------------------------------------
(*                         VpnSecurityManager                              *)

\* Platform filter operations: each replaces whatever filter was installed.
setupBasicFirewallRules == "basic"
blockAllTraffic == "killswitch"
removeFirewallRules == "none"

CtorCommunicationBlocked == TRUE
CtorKillSwitchEnabled == FALSE

\* static std::atomic<bool> communicationBlocked{false}; of the draft of
\* openVpnProtocol.cpp, whose constructor leaves it alone.
DraftCommunicationBlocked == FALSE

GateInit ==
    /\ communicationBlocked = CtorCommunicationBlocked
    /\ killSwitchEnabled = CtorKillSwitchEnabled
    /\ firewall = "none"
    /\ gateLog = << >>
    /\ draftCommunicationBlocked = DraftCommunicationBlocked
    /\ gpc = [t \in 1..MaxGateThreads |-> [at |-> "idle", op |-> "", filter |-> "none"]]

GateCall(op) ==
    /\ Len(gateLog) < MaxGateCalls
    /\ gateLog' = Append(gateLog, op)
    /\ UNCHANGED <<draftCommunicationBlocked, gpc, mgrVars, clientVars, sysVars,
                   protoVars>>

\* The draft's free functions blockCommunication() / unblockCommunication().
DraftCall(op, blocked) ==
    /\ Len(gateLog) < MaxGateCalls
    /\ gateLog' = Append(gateLog, op)
    /\ draftCommunicationBlocked' = blocked
    /\ UNCHANGED <<communicationBlocked, killSwitchEnabled, firewall, gpc,
                   mgrVars, clientVars, sysVars, protoVars>>

draftBlockCommunication == DraftCall("draft blockCommunication", TRUE)

draftUnblockCommunication == DraftCall("draft unblockCommunication", FALSE)

blockCommunicationBasicOnly ==
    /\ GateCall("blockCommunication")
    /\ communicationBlocked' = TRUE
    /\ firewall' = setupBasicFirewallRules
    /\ UNCHANGED killSwitchEnabled

blockCommunication ==
    /\ GateCall("blockCommunication")
    /\ communicationBlocked' = TRUE
    /\ firewall' = IF killSwitchEnabled THEN blockAllTraffic
                                        ELSE setupBasicFirewallRules
    /\ UNCHANGED killSwitchEnabled

unblockCommunication ==
    /\ GateCall("unblockCommunication")
    /\ communicationBlocked' = FALSE
    /\ firewall' = removeFirewallRules
    /\ UNCHANGED killSwitchEnabled

allowCommunicationWithoutVpn ==
    /\ GateCall("allowCommunicationWithoutVpn")
    /\ communicationBlocked' = FALSE
    /\ firewall' = removeFirewallRules
    /\ UNCHANGED killSwitchEnabled

\* A variant that clears the sensitive data and leaves the filter installed.
secureCleanupKeepsFilter ==
    /\ GateCall("secureCleanup")
    /\ UNCHANGED <<communicationBlocked, killSwitchEnabled, firewall>>

secureCleanup ==
    /\ GateCall("secureCleanup")
    /\ firewall' = removeFirewallRules
    /\ UNCHANGED <<communicationBlocked, killSwitchEnabled>>

enableKillSwitch ==
    /\ GateCall("enableKillSwitch")
    /\ killSwitchEnabled' = TRUE
    /\ firewall' = IF communicationBlocked THEN blockAllTraffic ELSE firewall
    /\ UNCHANGED communicationBlocked

disableKillSwitchRemovesRules ==
    /\ GateCall("disableKillSwitch")
    /\ killSwitchEnabled' = FALSE
    /\ firewall' = removeFirewallRules
    /\ UNCHANGED communicationBlocked

disableKillSwitch ==
    /\ GateCall("disableKillSwitch")
    /\ killSwitchEnabled' = FALSE
    /\ firewall' = IF ~communicationBlocked THEN removeFirewallRules
                                            ELSE setupBasicFirewallRules
    /\ UNCHANGED communicationBlocked

GateNext ==
    \/ blockCommunication
    \/ unblockCommunication
    \/ allowCommunicationWithoutVpn
    \/ secureCleanup
    \/ enableKillSwitch
    \/ disableKillSwitch
    \/ draftBlockCommunication
    \/ draftUnblockCommunication

\* ---- The same four toggles called from several threads: each call is the
\* store of its own flag, then the load of the other flag that chooses the
\* platform operation, then that operation.  gpc[t] is thread t's position
\* and the operation it has chosen.
GateStart(t, op) ==
    /\ gpc[t].at = "idle"
    /\ Len(gateLog) < MaxGateCalls
    /\ gateLog' = Append(gateLog, op)
    /\ communicationBlocked' =
          CASE op = "blockCommunication" -> TRUE
            [] op = "unblockCommunication" -> FALSE
            [] OTHER -> communicationBlocked
    /\ killSwitchEnabled' =
          CASE op = "enableKillSwitch" -> TRUE
            [] op = "disableKillSwitch" -> FALSE
            [] OTHER -> killSwitchEnabled
    /\ gpc' = [gpc EXCEPT ![t] =
                 IF op = "unblockCommunication"
                 THEN [at |-> "install", op |-> op, filter |-> removeFirewallRules]
                 ELSE [at |-> "read", op |-> op, filter |-> "none"]]
    /\ UNCHANGED <<firewall, draftCommunicationBlocked, mgrVars, clientVars,
                   sysVars, protoVars>>

\* if (killSwitchEnabled) ... / if (communicationBlocked) ...
GateRead(t) ==
    /\ gpc[t].at = "read"
    /\ gpc' = [gpc EXCEPT ![t] =
          CASE gpc[t].op = "blockCommunication" ->
                 [@ EXCEPT !.at = "install",
                           !.filter = IF killSwitchEnabled THEN blockAllTraffic
                                      ELSE setupBasicFirewallRules]
            [] gpc[t].op = "enableKillSwitch" ->
                 IF communicationBlocked
                 THEN [@ EXCEPT !.at = "install", !.filter = blockAllTraffic]
                 ELSE [at |-> "idle", op |-> "", filter |-> "none"]
            [] OTHER ->
                 [@ EXCEPT !.at = "install",
                           !.filter = IF ~communicationBlocked THEN removeFirewallRules
                                      ELSE setupBasicFirewallRules]]
    /\ UNCHANGED <<communicationBlocked, killSwitchEnabled, firewall, gateLog,
                   draftCommunicationBlocked, mgrVars, clientVars, sysVars,
                   protoVars>>

\* blockAllTraffic() / setupBasicFirewallRules() / removeFirewallRules()
GateInstall(t) ==
    /\ gpc[t].at = "install"
    /\ firewall' = gpc[t].filter
    /\ gpc' = [gpc EXCEPT ![t] = [at |-> "idle", op |-> "", filter |-> "none"]]
    /\ UNCHANGED <<communicationBlocked, killSwitchEnabled, gateLog,
                   draftCommunicationBlocked, mgrVars, clientVars, sysVars,
                   protoVars>>

\* A variant in which the exception of a failed platform call leaves the gate.
GateInstallFailsEscapes(t) ==
    /\ gpc[t].at = "install"
    /\ process' = "terminated"
    /\ gpc' = [gpc EXCEPT ![t] = [at |-> "idle", op |-> "", filter |-> "none"]]
    /\ UNCHANGED <<communicationBlocked, killSwitchEnabled, firewall, gateLog,
                   draftCommunicationBlocked, mgrVars, clientVars, build,
                   protoVars>>

\* The platform call throws: catch (const std::exception& e) { std::cerr ... }
\* in setupBasicFirewallRules / removeFirewallRules / blockAllTraffic; the
\* filter is left as it was.
GateInstallFails(t) ==
    /\ gpc[t].at = "install"
    /\ gpc' = [gpc EXCEPT ![t] = [at |-> "idle", op |-> "", filter |-> "none"]]
    /\ UNCHANGED <<communicationBlocked, killSwitchEnabled, firewall, gateLog,
                   draftCommunicationBlocked, mgrVars, clientVars, sysVars,
                   protoVars>>

GateRaceNext ==
    \/ \E t \in 1..MaxGateThreads,
          op \in {"blockCommunication", "unblockCommunication",
                  "enableKillSwitch", "disableKillSwitch"} : GateStart(t, op)
    \/ \E t \in 1..MaxGateThreads : GateRead(t)
    \/ \E t \in 1..MaxGateThreads : GateInstall(t)

-----------------------------------------------------------------------------
(*                          VpnConfigManager                               *)

\* The files the ConfigProvider can be asked for.  A file's content is the
\* sequence of directives it holds; find() looks a directive up.
Paths == {"good.ovpn", "noclient.ovpn", "missing.ovpn", "empty.ovpn"}

FileReadable(path) == path # "missing.ovpn"

FileContent(path) ==
    CASE path = "good.ovpn" -> <<"client", "remote ", "cert ">>
      [] path = "noclient.ovpn" -> <<"remote ", "cert ">>
      [] OTHER -> << >>

Find(content, needle) == \E i \in 1..Len(content) : content[i] = needle

\* loadConfigFromFile: the content, or the what() of the exception it throws.
loadConfigFromFile(path) ==
    IF ~FileReadable(path)
    THEN [ok |-> FALSE, content |-> << >>,
          what |-> "Failed to load config: Cannot open config file: " \o path]
    ELSE IF FileContent(path) = << >>
    THEN [ok |-> FALSE, content |-> << >>,
          what |-> "Failed to load config: Config file is empty: " \o path]
    ELSE [ok |-> TRUE, content |-> FileContent(path), what |-> ""]

\* A variant that treats the cipher and auth warnings as errors.
validateConfigStrict(content) ==
    IF ~Find(content, "remote ")
    THEN [isValid |-> FALSE, warnings |-> << >>,
          errorMessage |-> "Configuration missing remote server specification"]
    ELSE IF ~Find(content, "client")
    THEN [isValid |-> FALSE, warnings |-> << >>,
          errorMessage |-> "Configuration not set for client mode"]
    ELSE IF ~(Find(content, "cert ") \/ Find(content, "<cert>")
              \/ Find(content, "auth-user-pass"))
    THEN [isValid |-> FALSE, warnings |-> << >>,
          errorMessage |-> "Configuration missing authentication credentials"]
    ELSE IF Find(content, "cipher none") \/ Find(content, "auth none")
    THEN [isValid |-> FALSE, warnings |-> << >>,
          errorMessage |-> "Warning: No encryption cipher specified"]
    ELSE [isValid |-> TRUE, errorMessage |-> "",
          warnings |->
             (IF ~Find(content, "verify-x509-name")
              THEN <<"Warning: X.509 name verification not enabled">> ELSE << >>)]

validateConfig(content) ==
    IF ~Find(content, "remote ")
    THEN [isValid |-> FALSE, warnings |-> << >>,
          errorMessage |-> "Configuration missing remote server specification"]
    ELSE IF ~Find(content, "client")
    THEN [isValid |-> FALSE, warnings |-> << >>,
          errorMessage |-> "Configuration not set for client mode"]
    ELSE IF ~(Find(content, "cert ") \/ Find(content, "<cert>")
              \/ Find(content, "auth-user-pass"))
    THEN [isValid |-> FALSE, warnings |-> << >>,
          errorMessage |-> "Configuration missing authentication credentials"]
    ELSE [isValid |-> TRUE, errorMessage |-> "",
          warnings |->
             (IF Find(content, "cipher none")
              THEN <<"Warning: No encryption cipher specified">> ELSE << >>)
             \o (IF Find(content, "auth none")
              THEN <<"Warning: No authentication algorithm specified">> ELSE << >>)
             \o (IF ~Find(content, "verify-x509-name")
              THEN <<"Warning: X.509 name verification not enabled">> ELSE << >>)]

-----------------------------------------------------------------------------
(*                      Threads, mutexes, callbacks                        *)

\* The foreground caller issues every command; a second thread only ever
\* calls connect().
Callers == {"ui", "bg"}
Foreground == {"ui"}
Workers == 1..MaxWorkers

NoThread == <<"none", 0>>
Caller(c) == <<"caller", c>>
Worker(w) == <<"worker", ToString(w)>>
ClientThread == <<"client", "ct">>

NoCb == [st |-> "none", msg |-> ""]
NoFuture == [kind |-> "none", w |-> 0]

\* Builds differ in what std::mutex::lock() does when the calling thread
\* already owns the mutex (undefined behaviour): block forever, throw
\* std::system_error, or count the lock like a recursive mutex.
Builds == {"deadlock", "throw", "recursive"}

\* The wait predicate of waitForConnectionCompletion.
WaitPredicate ==
    currentStatus = Connected \/ currentStatus = Error \/ shouldStop

\* updateStatus, the part under statusMutex plus notify_all: the state and a
\* non-empty message are written, every waiter on statusCv is signalled.
\* A variant that assigns the message whether it is empty or not.
updateStatusAlwaysWrites(newStatus, message) ==
    /\ currentStatus' = newStatus
    /\ lastError' = message
    /\ cvSignal' = cvSignal \cup {w \in Workers : wpc[w] = "waiting"}

updateStatus(newStatus, message) ==
    /\ currentStatus' = newStatus
    /\ lastError' = IF message # "" THEN message ELSE lastError
    /\ cvSignal' = cvSignal \cup {w \in Workers : wpc[w] = "waiting"}

\* What updateStatus still owes after the critical section: the callback.
OwedCallback(newStatus, message) ==
    IF hasCallback THEN [st |-> newStatus, msg |-> message] ELSE NoCb

\* The StatusObserver is handed (status, message).
Observe(c) == c.st

\* handleConnectionEvent: the (status, message) an event is translated to,
\* or NoCb for an event that is only logged.
handleConnectionEvent(eventName, info) ==
    CASE eventName = "CONNECTED" ->
            [st |-> Connected, msg |-> "VPN connection established"]
      [] eventName = "DISCONNECTED" ->
            [st |-> Disconnected, msg |-> IF info = "" THEN "Disconnected" ELSE info]
      [] eventName = "RECONNECTING" ->
            [st |-> Connecting, msg |-> "Reconnecting..."]
      [] eventName = "CONNECTING" ->
            [st |-> Connecting, msg |-> info]
      [] eventName = "PAUSED" ->
            [st |-> Disconnected, msg |-> "Connection paused"]
      [] eventName = "RESUMED" ->
            [st |-> Connecting, msg |-> "Connection resumed"]
      [] OTHER -> NoCb

\* handleConnectionComplete: the (status, message) it hands to updateStatus.
handleConnectionComplete(success, error) ==
    IF success
    THEN [st |-> Connected, msg |-> "VPN connection established successfully"]
    ELSE [st |-> Error, msg |-> IF error = "" THEN "Connection failed" ELSE error]

-----------------------------------------------------------------------------
(*                            OpenVpnClient                                *)

\* connectionSteps of simulateConnectionProcess: the info of each CONNECTING.
connectionSteps ==
    <<"Resolving server address...",
      "Establishing TCP/UDP connection...",
      "Performing TLS handshake...",
      "Authenticating with server...",
      "Configuring tunnel interface...">>

At(a, i) == [at |-> a, i |-> i]
NotStarted == At("none", 0)        \* connectionThread is not joinable
Finished == At("finished", 0)      \* the thread function returned, not joined

ClientInit ==
    /\ isRunning = FALSE
    /\ clientShouldStop = FALSE
    /\ clientConfig = << >>
    /\ clientLastError = ""
    /\ stateMutex = NoThread
    /\ ctpc = NotStarted
    /\ ctcb = NoCb

\* startConnection(content), run under stateMutex: what it returns, or
\* "terminate" when it move-assigns a thread onto a still joinable one.
StartOutcome(content) ==
    IF isRunning THEN "busy"
    ELSE IF content = << >> THEN "empty"
    ELSE IF ctpc # NotStarted THEN "terminate"
    ELSE "ok"

\* A variant that stores the configuration before it tests the guards.
startConnectionStoresFirst(content) ==
    LET out == StartOutcome(content) IN
    /\ clientLastError' =
          CASE out = "busy" -> "Connection already in progress"
            [] out = "empty" -> "Configuration content is empty"
            [] OTHER -> clientLastError
    /\ clientConfig' = content
    /\ clientShouldStop' = IF out \in {"ok", "terminate"} THEN FALSE ELSE clientShouldStop
    /\ isRunning' = IF out \in {"ok", "terminate"} THEN TRUE ELSE isRunning
    /\ ctpc' = IF out = "ok" THEN At("check", 1) ELSE ctpc
    /\ process' = IF out = "terminate" THEN "terminated" ELSE process

startConnection(content) ==
    LET out == StartOutcome(content) IN
    /\ clientLastError' =
          CASE out = "busy" -> "Connection already in progress"
            [] out = "empty" -> "Configuration content is empty"
            [] OTHER -> clientLastError
    /\ clientConfig' = IF out \in {"ok", "terminate"} THEN content ELSE clientConfig
    /\ clientShouldStop' = IF out \in {"ok", "terminate"} THEN FALSE ELSE clientShouldStop
    /\ isRunning' = IF out \in {"ok", "terminate"} THEN TRUE ELSE isRunning
    /\ ctpc' = IF out = "ok" THEN At("check", 1) ELSE ctpc
    /\ process' = IF out = "terminate" THEN "terminated" ELSE process

\* ---- simulateConnectionProcess, on the client's connectionThread

\* for (step : connectionSteps) { if (shouldStop) return; ...
ClientStepCheck ==
    /\ process = "running"
    /\ ctpc.at = "check"
    /\ ctcb = NoCb
    /\ ctpc' = IF clientShouldStop THEN Finished ELSE At("emit", ctpc.i)
    /\ UNCHANGED <<protoVars, sysVars, gateVars, mgrVars, isRunning, clientShouldStop, clientConfig,
                   clientLastError, stateMutex, ctcb>>

\* ... handleInternalEvent("CONNECTING", info); log; sleep }
ClientStepEmit ==
    /\ process = "running"
    /\ ctpc.at = "emit"
    /\ statusMutex = NoThread
    /\ LET e == handleConnectionEvent("CONNECTING", connectionSteps[ctpc.i]) IN
          /\ updateStatus(e.st, e.msg)
          /\ ctcb' = OwedCallback(e.st, e.msg)
    /\ ctpc' = IF ctpc.i < Len(connectionSteps) THEN At("check", ctpc.i + 1)
                                                ELSE At("final", 0)
    /\ UNCHANGED <<protoVars, gateVars, shouldStop, connectionInProgress, currentConfig,
                   statusMutex, hasCallback, observer, ucb, upc, ucmd, uarg,
                   future, wcb, wpc, wst, cmdLog, build, process, isRunning,
                   clientShouldStop, clientConfig, clientLastError, stateMutex>>

\* if (!shouldStop) { handleInternalEvent("CONNECTED", ...) ...
ClientFinalCheck ==
    /\ process = "running"
    /\ ctpc.at = "final"
    /\ ctcb = NoCb
    /\ ctpc' = IF clientShouldStop THEN Finished ELSE At("connected", 0)
    /\ UNCHANGED <<protoVars, sysVars, gateVars, mgrVars, isRunning, clientShouldStop, clientConfig,
                   clientLastError, stateMutex, ctcb>>

ClientEmitConnected ==
    /\ process = "running"
    /\ ctpc.at = "connected"
    /\ statusMutex = NoThread
    /\ LET e == handleConnectionEvent("CONNECTED", "VPN tunnel established successfully") IN
          /\ updateStatus(e.st, e.msg)
          /\ ctcb' = OwedCallback(e.st, e.msg)
    /\ ctpc' = At("keepalive", 0)
    /\ UNCHANGED <<protoVars, gateVars, shouldStop, connectionInProgress, currentConfig,
                   statusMutex, hasCallback, observer, ucb, upc, ucmd, uarg,
                   future, wcb, wpc, wst, cmdLog, build, process, isRunning,
                   clientShouldStop, clientConfig, clientLastError, stateMutex>>

\* ... while (!shouldStop) sleep; }
ClientKeepAliveEnd ==
    /\ process = "running"
    /\ ctpc.at = "keepalive"
    /\ ctcb = NoCb
    /\ clientShouldStop
    /\ ctpc' = Finished
    /\ UNCHANGED <<protoVars, sysVars, gateVars, mgrVars, isRunning, clientShouldStop, clientConfig,
                   clientLastError, stateMutex, ctcb>>

\* The callback at the end of an updateStatus run on the client thread.
ClientDeliverCallback ==
    /\ process = "running"
    /\ ctcb # NoCb
    /\ observer' = Observe(ctcb)
    /\ ctcb' = NoCb
    /\ UNCHANGED <<protoVars, gateVars, currentStatus, lastError, shouldStop,
                   connectionInProgress, currentConfig, statusMutex, cvSignal,
                   hasCallback, ucb, upc, ucmd, uarg, future, wcb, wpc, wst,
                   cmdLog, build, process, isRunning, clientShouldStop,
                   clientConfig, clientLastError, stateMutex, ctpc>>

-----------------------------------------------------------------------------
(*          VpnConnectionManager: the async worker of connect()            *)

NewAttempt(c, path) ==
    [path |-> path, owner |-> c, msg |-> "", completed |-> FALSE,
     ret |-> FALSE, result |-> "pending", started |-> FALSE,
     timedOut |-> FALSE, interrupted |-> FALSE, cancelledEarly |-> FALSE]
NoAttempt == [NewAttempt("ui", "") EXCEPT !.result = "none"]

\* What a worker step never touches.
WorkerFrame ==
    UNCHANGED <<protoVars, gateVars, hasCallback, observer, ucb, upc, ucmd, uarg, future,
                cmdLog, build>>

\* A worker step that runs updateStatus(st, msg) with statusMutex free and
\* moves on to `next`.
WorkerUpdate(w, st, msg, next) ==
    /\ statusMutex = NoThread
    /\ updateStatus(st, msg)
    /\ wcb' = [wcb EXCEPT ![w] = OwedCallback(st, msg)]
    /\ wpc' = [wpc EXCEPT ![w] = next]
    /\ UNCHANGED <<shouldStop, connectionInProgress, currentConfig, statusMutex,
                   process, clientVars>>
    /\ WorkerFrame

\* prepareConfiguration: updateStatus(Connecting, "Loading configuration...")
PrepLoading(w) ==
    /\ process = "running" /\ wpc[w] = "p_loading" /\ wcb[w] = NoCb
    /\ WorkerUpdate(w, Connecting, "Loading configuration...", "p_load")
    /\ UNCHANGED wst

\* prepareConfiguration, from the load to the validation: whether the phase
\* goes on, the message of its failure, and the config it caches.
PrepareOutcomeSkipsValidation(path) ==
    LET r == loadConfigFromFile(path) IN
    [ok |-> TRUE, msg |-> "", cache |-> TRUE, content |-> r.content]

PrepareOutcome(path) ==
    LET r == loadConfigFromFile(path)
        v == validateConfig(r.content)
    IN  IF ~r.ok
        THEN [ok |-> FALSE, cache |-> FALSE, content |-> << >>,
              msg |-> "Configuration preparation failed: " \o r.what]
        ELSE IF ~v.isValid
        THEN [ok |-> FALSE, cache |-> TRUE, content |-> r.content,
              msg |-> "Configuration validation failed: " \o v.errorMessage]
        ELSE [ok |-> TRUE, cache |-> TRUE, content |-> r.content, msg |-> ""]

PrepLoad(w) ==
    /\ process = "running" /\ wpc[w] = "p_load" /\ wcb[w] = NoCb
    /\ LET o == PrepareOutcome(wst[w].path) IN
          /\ currentConfig' = IF o.cache THEN o.content ELSE currentConfig
          /\ wst' = [wst EXCEPT ![w].msg = o.msg]
          /\ wpc' = [wpc EXCEPT ![w] = IF o.ok THEN "p_valid" ELSE "fail"]
    /\ UNCHANGED <<currentStatus, lastError, cvSignal, shouldStop,
                   connectionInProgress, statusMutex, wcb, process, clientVars>>
    /\ WorkerFrame

\* handleConnectionComplete(false, msg); return false;
Fail(w) ==
    /\ process = "running" /\ wpc[w] = "fail" /\ wcb[w] = NoCb
    /\ LET h == handleConnectionComplete(FALSE, wst[w].msg) IN
          WorkerUpdate(w, h.st, h.msg, "finish")
    /\ wst' = [wst EXCEPT ![w].ret = FALSE]

PrepValid(w) ==
    /\ process = "running" /\ wpc[w] = "p_valid" /\ wcb[w] = NoCb
    /\ WorkerUpdate(w, Connecting, "Configuration validated successfully", "i_establish")
    /\ UNCHANGED wst

\* initiateConnection
InitEstablish(w) ==
    /\ process = "running" /\ wpc[w] = "i_establish" /\ wcb[w] = NoCb
    /\ WorkerUpdate(w, Connecting, "Establishing connection...", "i_start")
    /\ UNCHANGED wst

InitStart(w) ==
    /\ process = "running" /\ wpc[w] = "i_start" /\ wcb[w] = NoCb
    /\ stateMutex = NoThread
    /\ startConnection(currentConfig)
    /\ wpc' = [wpc EXCEPT ![w] =
                 IF StartOutcome(currentConfig) = "ok" THEN "i_started" ELSE "i_geterr"]
    /\ wst' = [wst EXCEPT ![w].started = TRUE]
    /\ UNCHANGED <<currentStatus, lastError, cvSignal, shouldStop,
                   connectionInProgress, currentConfig, statusMutex, wcb,
                   stateMutex, ctcb>>
    /\ WorkerFrame

\* A variant that records the error and carries on as if the client had started.
InitGetErrorProceeds(w) ==
    /\ process = "running" /\ wpc[w] = "i_geterr"
    /\ stateMutex = NoThread
    /\ wst' = [wst EXCEPT ![w].msg = "Failed to start connection: " \o clientLastError]
    /\ wpc' = [wpc EXCEPT ![w] = "i_started"]
    /\ UNCHANGED <<currentStatus, lastError, cvSignal, shouldStop,
                   connectionInProgress, currentConfig, statusMutex, wcb,
                   process, clientVars>>
    /\ WorkerFrame

\* std::string error = vpnClient->getLastError();
InitGetError(w) ==
    /\ process = "running" /\ wpc[w] = "i_geterr"
    /\ stateMutex = NoThread
    /\ wst' = [wst EXCEPT ![w].msg = "Failed to start connection: " \o clientLastError]
    /\ wpc' = [wpc EXCEPT ![w] = "fail"]
    /\ UNCHANGED <<currentStatus, lastError, cvSignal, shouldStop,
                   connectionInProgress, currentConfig, statusMutex, wcb,
                   process, clientVars>>
    /\ WorkerFrame

InitStarted(w) ==
    /\ process = "running" /\ wpc[w] = "i_started" /\ wcb[w] = NoCb
    /\ WorkerUpdate(w, Connecting, "Connection initiated successfully", "w_lock")
    /\ UNCHANGED wst

\* waitForConnectionCompletion: std::unique_lock<std::mutex> lock(statusMutex);
WaitLock(w) ==
    /\ process = "running" /\ wpc[w] = "w_lock" /\ wcb[w] = NoCb
    /\ statusMutex = NoThread
    /\ statusMutex' = Worker(w)
    /\ wpc' = [wpc EXCEPT ![w] = "w_status"]
    /\ UNCHANGED <<currentStatus, lastError, cvSignal, shouldStop,
                   connectionInProgress, currentConfig, wcb, wst, process,
                   clientVars>>
    /\ WorkerFrame

\* updateStatus(st, msg) called by the worker while its unique_lock owns
\* statusMutex.  recursive build: the write goes through, go on at `next`;
\* throw build: std::system_error unwinds to the catch of
\* waitForConnectionCompletion (the unique_lock is released on the way);
\* deadlock build: the thread blocks in lock() forever.
RelockedUpdate(w, st, msg, next) ==
    /\ statusMutex = Worker(w)
    /\ CASE build = "recursive" ->
              /\ updateStatus(st, msg)
              /\ wcb' = [wcb EXCEPT ![w] = OwedCallback(st, msg)]
              /\ wpc' = [wpc EXCEPT ![w] = next]
              /\ wst' = [wst EXCEPT ![w].ret = FALSE]
              /\ UNCHANGED statusMutex
         [] build = "throw" ->
              /\ statusMutex' = NoThread
              /\ wst' = [wst EXCEPT ![w].msg =
                     "Error waiting for connection: Resource deadlock avoided"]
              /\ wpc' = [wpc EXCEPT ![w] = "fail"]
              /\ UNCHANGED <<currentStatus, lastError, cvSignal, wcb>>
         [] OTHER ->
              /\ wpc' = [wpc EXCEPT ![w] = "deadlocked"]
              /\ UNCHANGED <<currentStatus, lastError, cvSignal, wcb, wst,
                             statusMutex>>
    /\ UNCHANGED <<shouldStop, connectionInProgress, currentConfig, process,
                   clientVars>>
    /\ WorkerFrame

\* updateStatus(Connecting, "Waiting for connection establishment...");
WaitStatus(w) ==
    /\ process = "running" /\ wpc[w] = "w_status"
    /\ RelockedUpdate(w, Connecting, "Waiting for connection establishment...", "w_wait")

\* statusCv.wait_for(lock, timeout, pred): the first test of the predicate.
WaitEnter(w) ==
    /\ process = "running" /\ wpc[w] = "w_wait" /\ wcb[w] = NoCb
    /\ statusMutex = Worker(w)
    /\ IF WaitPredicate
       THEN /\ wst' = [wst EXCEPT ![w].completed = TRUE]
            /\ wpc' = [wpc EXCEPT ![w] = "w_after"]
            /\ UNCHANGED statusMutex
       ELSE /\ statusMutex' = NoThread
            /\ wpc' = [wpc EXCEPT ![w] = "waiting"]
            /\ UNCHANGED wst
    /\ cvSignal' = cvSignal \ {w}
    /\ UNCHANGED <<currentStatus, lastError, shouldStop, connectionInProgress,
                   currentConfig, wcb, process, clientVars>>
    /\ WorkerFrame

\* A notified waiter re-acquires the mutex and tests the predicate again.
WaitWake(w) ==
    /\ process = "running" /\ wpc[w] = "waiting"
    /\ w \in cvSignal
    /\ statusMutex = NoThread
    /\ cvSignal' = cvSignal \ {w}
    /\ IF WaitPredicate
       THEN /\ statusMutex' = Worker(w)
            /\ wst' = [wst EXCEPT ![w].completed = TRUE]
            /\ wpc' = [wpc EXCEPT ![w] = "w_after"]
       ELSE UNCHANGED <<statusMutex, wst, wpc>>
    /\ UNCHANGED <<currentStatus, lastError, shouldStop, connectionInProgress,
                   currentConfig, wcb, process, clientVars>>
    /\ WorkerFrame

\* A spurious wake-up that finds the predicate true.
WaitSpurious(w) ==
    /\ process = "running" /\ wpc[w] = "waiting"
    /\ w \notin cvSignal
    /\ statusMutex = NoThread
    /\ WaitPredicate
    /\ statusMutex' = Worker(w)
    /\ wst' = [wst EXCEPT ![w].completed = TRUE]
    /\ wpc' = [wpc EXCEPT ![w] = "w_after"]
    /\ UNCHANGED <<currentStatus, lastError, cvSignal, shouldStop,
                   connectionInProgress, currentConfig, wcb, process, clientVars>>
    /\ WorkerFrame

\* The 30 s of wait_for elapse: it returns pred().
WaitTimeout(w) ==
    /\ process = "running" /\ wpc[w] = "waiting"
    /\ statusMutex = NoThread
    /\ statusMutex' = Worker(w)
    /\ cvSignal' = cvSignal \ {w}
    /\ wst' = [wst EXCEPT ![w].completed = WaitPredicate, ![w].timedOut = TRUE]
    /\ wpc' = [wpc EXCEPT ![w] = "w_after"]
    /\ UNCHANGED <<currentStatus, lastError, shouldStop, connectionInProgress,
                   currentConfig, wcb, process, clientVars>>
    /\ WorkerFrame

\* The tests after wait_for, with the lock held.
WaitCancelled(w) ==
    /\ process = "running" /\ wpc[w] = "w_after"
    /\ shouldStop
    /\ LET h == handleConnectionComplete(FALSE, "Connection cancelled by user") IN
          RelockedUpdate(w, h.st, h.msg, "w_ret")

WaitTimedOut(w) ==
    /\ process = "running" /\ wpc[w] = "w_after"
    /\ ~shouldStop /\ ~wst[w].completed
    /\ LET h == handleConnectionComplete(FALSE,
                   "Connection timeout - unable to establish VPN tunnel") IN
          RelockedUpdate(w, h.st, h.msg, "w_ret")

\* A variant that reports success for every completed wait.
WaitResultAlwaysTrue(w) ==
    /\ process = "running" /\ wpc[w] = "w_after"
    /\ ~shouldStop /\ wst[w].completed
    /\ statusMutex = Worker(w)
    /\ statusMutex' = NoThread
    /\ wst' = [wst EXCEPT ![w].ret = TRUE]
    /\ wpc' = [wpc EXCEPT ![w] = "finish"]
    /\ UNCHANGED <<currentStatus, lastError, cvSignal, shouldStop,
                   connectionInProgress, currentConfig, wcb, process, clientVars>>
    /\ WorkerFrame

\* if (currentStatus == Error) return false; return currentStatus == Connected;
WaitResult(w) ==
    /\ process = "running" /\ wpc[w] = "w_after"
    /\ ~shouldStop /\ wst[w].completed
    /\ statusMutex = Worker(w)
    /\ statusMutex' = NoThread
    /\ wst' = [wst EXCEPT ![w].ret = (currentStatus = Connected)]
    /\ wpc' = [wpc EXCEPT ![w] = "finish"]
    /\ UNCHANGED <<currentStatus, lastError, cvSignal, shouldStop,
                   connectionInProgress, currentConfig, wcb, process, clientVars>>
    /\ WorkerFrame

\* return false; with the unique_lock released on the way out.
WaitReturn(w) ==
    /\ process = "running" /\ wpc[w] = "w_ret" /\ wcb[w] = NoCb
    /\ statusMutex' = NoThread
    /\ wpc' = [wpc EXCEPT ![w] = "finish"]
    /\ UNCHANGED <<currentStatus, lastError, cvSignal, shouldStop,
                   connectionInProgress, currentConfig, wcb, wst, process,
                   clientVars>>
    /\ WorkerFrame

\* connect()'s lambda: connectionInProgress = false; return result;
Finish(w) ==
    /\ process = "running" /\ wpc[w] = "finish" /\ wcb[w] = NoCb
    /\ connectionInProgress' = FALSE
    /\ wst' = [wst EXCEPT ![w].result = IF wst[w].ret THEN "true" ELSE "false"]
    /\ wpc' = [wpc EXCEPT ![w] = "idle"]
    /\ UNCHANGED <<currentStatus, lastError, cvSignal, shouldStop,
                   currentConfig, statusMutex, wcb, process, clientVars>>
    /\ WorkerFrame

WorkerDeliverCallback(w) ==
    /\ process = "running"
    /\ wcb[w] # NoCb
    /\ observer' = Observe(wcb[w])
    /\ wcb' = [wcb EXCEPT ![w] = NoCb]
    /\ UNCHANGED <<protoVars, gateVars, currentStatus, lastError, shouldStop,
                   connectionInProgress, currentConfig, statusMutex, cvSignal,
                   hasCallback, ucb, upc, ucmd, uarg, future, wpc, wst,
                   cmdLog, build, process, clientVars>>

-----------------------------------------------------------------------------
(*        VpnConnectionManager: the commands, on the callers' threads      *)

Cmd(op, c) == [op |-> op, by |-> c]

\* A caller may issue its next command.
MayCall(c) ==
    /\ process = "running"
    /\ hasCallback
    /\ upc[c] = "idle" /\ ucb[c] = NoCb
    /\ Len(cmdLog) < MaxCmds

\* What a caller step never touches.
CallerFrame ==
    UNCHANGED <<protoVars, gateVars, hasCallback, observer, wcb, build>>

\* A caller step that runs updateStatus(st, msg) and moves on to `next`.
CallerUpdate(c, st, msg, next) ==
    /\ statusMutex = NoThread
    /\ updateStatus(st, msg)
    /\ ucb' = [ucb EXCEPT ![c] = OwedCallback(st, msg)]
    /\ upc' = [upc EXCEPT ![c] = next]
    /\ CallerFrame

\* ---- setStatusCallback: the presentation layer registers its observer
\* once, before it issues commands.
setStatusCallback ==
    /\ process = "running"
    /\ ~hasCallback
    /\ hasCallback' = TRUE
    /\ UNCHANGED <<protoVars, gateVars, currentStatus, lastError, shouldStop,
                   connectionInProgress, currentConfig, statusMutex, cvSignal,
                   observer, ucb, upc, ucmd, uarg, future, wcb, wpc, wst,
                   cmdLog, build, process, clientVars>>

\* ---- connect(configPath)

\* if (connectionInProgress) return std::async(deferred, [] { return false; });
RejectedConnectWritesError(c) ==
    /\ currentStatus' = Error
    /\ lastError' = "Connection already in progress"
    /\ UNCHANGED <<shouldStop, connectionInProgress, currentConfig, observer,
                   ucb, cvSignal>>

RejectedConnect(c) ==
    UNCHANGED <<currentStatus, lastError, shouldStop, connectionInProgress,
                currentConfig, observer, ucb, cvSignal>>

ConnectRejected(c, path) ==
    /\ MayCall(c)
    /\ connectionInProgress
    /\ RejectedConnect(c)
    /\ future' = [future EXCEPT ![c] = [kind |-> "deferred", w |-> 0]]
    /\ cmdLog' = Append(cmdLog, Cmd("connect", c))
    /\ UNCHANGED <<protoVars, gateVars, statusMutex, hasCallback, upc, ucmd, uarg, wcb,
                   wpc, wst, build, process, clientVars>>

ConnectAccepted(c, path) ==
    /\ MayCall(c)
    /\ ~connectionInProgress
    /\ upc' = [upc EXCEPT ![c] = "c_status"]
    /\ ucmd' = [ucmd EXCEPT ![c] = "connect"]
    /\ uarg' = [uarg EXCEPT ![c] = path]
    /\ cmdLog' = Append(cmdLog, Cmd("connect", c))
    /\ UNCHANGED <<currentStatus, lastError, cvSignal, shouldStop,
                   connectionInProgress, currentConfig, statusMutex, ucb,
                   future, wpc, wst, process, clientVars>>
    /\ CallerFrame

\* updateStatus(VpnStatus::Connecting, "Starting connection...");
ConnectStatus(c) ==
    /\ process = "running" /\ upc[c] = "c_status"
    /\ CallerUpdate(c, Connecting, "Starting connection...", "c_spawn")
    /\ UNCHANGED <<shouldStop, connectionInProgress, currentConfig, statusMutex,
                   ucmd, uarg, future, wpc, wst, cmdLog, process, clientVars>>

\* connectionInProgress = true; shouldStop = false; return std::async(async, ...)
ConnectSpawn(c) ==
    /\ process = "running" /\ upc[c] = "c_spawn" /\ ucb[c] = NoCb
    /\ \E w \in Workers :
          /\ wpc[w] = "idle"
          /\ \A v \in Workers : wpc[v] = "idle" => w <= v
          /\ wpc' = [wpc EXCEPT ![w] = "p_loading"]
          /\ wst' = [wst EXCEPT ![w] = NewAttempt(c, uarg[c])]
          /\ future' = [future EXCEPT ![c] = [kind |-> "async", w |-> w]]
    /\ connectionInProgress' = TRUE
    /\ shouldStop' = FALSE
    /\ upc' = [upc EXCEPT ![c] = "idle"]
    /\ UNCHANGED <<currentStatus, lastError, cvSignal, currentConfig,
                   statusMutex, ucb, ucmd, uarg, cmdLog, process, clientVars>>
    /\ CallerFrame

\* ---- disconnect()

\* if (currentStatus == VpnStatus::Disconnected) return;
DisconnectNoopNotifies(c) ==
    /\ MayCall(c)
    /\ currentStatus = Disconnected
    /\ cmdLog' = Append(cmdLog, Cmd("disconnect", c))
    /\ lastError' = "Disconnected successfully"
    /\ ucb' = [ucb EXCEPT ![c] = OwedCallback(Disconnected, "Disconnected successfully")]
    /\ UNCHANGED <<protoVars, gateVars, currentStatus, shouldStop,
                   connectionInProgress, currentConfig, statusMutex, cvSignal,
                   hasCallback, observer, upc, ucmd, uarg, future, wcb,
                   wpc, wst, build, process, clientVars>>

DisconnectNoop(c) ==
    /\ MayCall(c)
    /\ currentStatus = Disconnected
    /\ cmdLog' = Append(cmdLog, Cmd("disconnect", c))
    /\ UNCHANGED <<protoVars, gateVars, currentStatus, lastError, shouldStop,
                   connectionInProgress, currentConfig, statusMutex, cvSignal,
                   hasCallback, observer, ucb, upc, ucmd, uarg, future, wcb,
                   wpc, wst, build, process, clientVars>>

DisconnectCall(c) ==
    /\ MayCall(c)
    /\ currentStatus # Disconnected
    /\ upc' = [upc EXCEPT ![c] = "d_status"]
    /\ ucmd' = [ucmd EXCEPT ![c] = "disconnect"]
    /\ cmdLog' = Append(cmdLog, Cmd("disconnect", c))
    \* history: the attempts this call finds suspended in wait_for
    /\ wst' = [w \in Workers |->
                 IF wpc[w] = "waiting" /\ currentStatus = Connecting
                 THEN [wst[w] EXCEPT !.interrupted = TRUE] ELSE wst[w]]
    /\ UNCHANGED <<currentStatus, lastError, cvSignal, shouldStop,
                   connectionInProgress, currentConfig, statusMutex, ucb, uarg,
                   future, wpc, process, clientVars>>
    /\ CallerFrame

\* updateStatus(VpnStatus::Disconnected, "Disconnecting...");
DisconnectStatus(c) ==
    /\ process = "running" /\ upc[c] = "d_status"
    /\ CallerUpdate(c, Disconnected, "Disconnecting...", "d_flag")
    /\ UNCHANGED <<shouldStop, connectionInProgress, currentConfig, statusMutex,
                   ucmd, uarg, future, wpc, wst, cmdLog, process, clientVars>>

\* shouldStop = true;
DisconnectFlag(c) ==
    /\ process = "running" /\ upc[c] = "d_flag" /\ ucb[c] = NoCb
    /\ shouldStop' = TRUE
    /\ upc' = [upc EXCEPT ![c] = "s_lock"]
    /\ UNCHANGED <<currentStatus, lastError, cvSignal, connectionInProgress,
                   currentConfig, statusMutex, ucb, ucmd, uarg, future, wpc,
                   wst, cmdLog, process, clientVars>>
    /\ CallerFrame

\* ---- OpenVpnClient::stopConnection(), called by disconnect and reconnect
AfterStop(c) ==
    CASE ucmd[c] = "reconnect" -> "rc_restart"
      [] ucmd[c] = "stopConnection" -> "idle"
      [] OTHER -> "d_final"

\* { lock_guard; if (!isRunning) return; shouldStop = true; isRunning = false; }
StopLock(c) ==
    /\ process = "running" /\ upc[c] = "s_lock" /\ ucb[c] = NoCb
    /\ stateMutex = NoThread
    /\ IF isRunning
       THEN /\ clientShouldStop' = TRUE
            /\ isRunning' = FALSE
            /\ upc' = [upc EXCEPT ![c] = "s_join"]
       ELSE /\ upc' = [upc EXCEPT ![c] = AfterStop(c)]
            /\ UNCHANGED <<clientShouldStop, isRunning>>
    /\ UNCHANGED <<currentStatus, lastError, cvSignal, shouldStop,
                   connectionInProgress, currentConfig, statusMutex, ucb, ucmd,
                   uarg, future, wpc, wst, cmdLog, process, clientConfig,
                   clientLastError, stateMutex, ctpc, ctcb>>
    /\ CallerFrame

\* A variant of stopConnection that does not wait for the worker thread.
StopJoinDetached(c) ==
    /\ process = "running" /\ upc[c] = "s_join"
    /\ upc' = [upc EXCEPT ![c] = "s_event"]
    /\ UNCHANGED <<currentStatus, lastError, cvSignal, shouldStop,
                   connectionInProgress, currentConfig, statusMutex, ucb, ucmd,
                   uarg, future, wpc, wst, cmdLog, process, clientVars>>
    /\ CallerFrame

\* if (connectionThread.joinable()) connectionThread.join();
StopJoin(c) ==
    /\ process = "running" /\ upc[c] = "s_join"
    /\ ctpc \in {NotStarted, Finished}
    /\ ctpc' = NotStarted
    /\ upc' = [upc EXCEPT ![c] = "s_event"]
    /\ UNCHANGED <<currentStatus, lastError, cvSignal, shouldStop,
                   connectionInProgress, currentConfig, statusMutex, ucb, ucmd,
                   uarg, future, wpc, wst, cmdLog, process, isRunning,
                   clientShouldStop, clientConfig, clientLastError, stateMutex,
                   ctcb>>
    /\ CallerFrame

\* handleInternalEvent("DISCONNECTED", "Connection stopped by user");
StopEvent(c) ==
    /\ process = "running" /\ upc[c] = "s_event"
    /\ LET e == handleConnectionEvent("DISCONNECTED", "Connection stopped by user") IN
          CallerUpdate(c, e.st, e.msg, AfterStop(c))
    /\ UNCHANGED <<shouldStop, connectionInProgress, currentConfig, statusMutex,
                   ucmd, uarg, future, wpc, wst, cmdLog, process, clientVars>>

\* updateStatus(VpnStatus::Disconnected, "Disconnected successfully");
DisconnectFinal(c) ==
    /\ process = "running" /\ upc[c] = "d_final" /\ ucb[c] = NoCb
    /\ CallerUpdate(c, Disconnected, "Disconnected successfully",
                    IF ucmd[c] = "destroy" THEN "x_client" ELSE "idle")
    \* history: the attempts this call leaves behind in prepareConfiguration
    /\ wst' = [w \in Workers |->
                 IF wpc[w] \in {"p_loading", "p_load", "p_valid"}
                 THEN [wst[w] EXCEPT !.cancelledEarly = TRUE] ELSE wst[w]]
    /\ UNCHANGED <<shouldStop, connectionInProgress, currentConfig, statusMutex,
                   ucmd, uarg, future, wpc, cmdLog, process, clientVars>>

\* ---- pause() and resume(): pauseConnection()/resumeConnection() emit their
\* event under stateMutex when the client is running, then the manager
\* reports the status itself.
PauseResumeCall(c, op) ==
    /\ MayCall(c)
    /\ upc' = [upc EXCEPT ![c] = "pr_lock"]
    /\ ucmd' = [ucmd EXCEPT ![c] = op]
    /\ cmdLog' = Append(cmdLog, Cmd(op, c))
    /\ UNCHANGED <<currentStatus, lastError, cvSignal, shouldStop,
                   connectionInProgress, currentConfig, statusMutex, ucb, uarg,
                   future, wpc, wst, process, clientVars>>
    /\ CallerFrame

\* std::lock_guard<std::mutex> lock(stateMutex); if (isRunning) { ...
PauseResumeLock(c) ==
    /\ process = "running" /\ upc[c] = "pr_lock"
    /\ stateMutex = NoThread
    /\ stateMutex' = IF isRunning THEN Caller(c) ELSE NoThread
    /\ upc' = [upc EXCEPT ![c] = IF isRunning THEN "pr_event" ELSE "pr_status"]
    /\ UNCHANGED <<currentStatus, lastError, cvSignal, shouldStop,
                   connectionInProgress, currentConfig, statusMutex, ucb, ucmd,
                   uarg, future, wpc, wst, cmdLog, process, isRunning,
                   clientShouldStop, clientConfig, clientLastError, ctpc, ctcb>>
    /\ CallerFrame

\* handleInternalEvent("PAUSED" / "RESUMED", ...), stateMutex still held
PauseResumeEvent(c) ==
    /\ process = "running" /\ upc[c] = "pr_event"
    /\ LET e == IF ucmd[c] = "pause"
                THEN handleConnectionEvent("PAUSED", "Connection paused")
                ELSE handleConnectionEvent("RESUMED", "Connection resumed")
       IN  CallerUpdate(c, e.st, e.msg, "pr_unlock")
    /\ UNCHANGED <<shouldStop, connectionInProgress, currentConfig, statusMutex,
                   ucmd, uarg, future, wpc, wst, cmdLog, process, clientVars>>

PauseResumeUnlock(c) ==
    /\ process = "running" /\ upc[c] = "pr_unlock" /\ ucb[c] = NoCb
    /\ stateMutex' = NoThread
    /\ upc' = [upc EXCEPT ![c] = "pr_status"]
    /\ UNCHANGED <<currentStatus, lastError, cvSignal, shouldStop,
                   connectionInProgress, currentConfig, statusMutex, ucb, ucmd,
                   uarg, future, wpc, wst, cmdLog, process, isRunning,
                   clientShouldStop, clientConfig, clientLastError, ctpc, ctcb>>
    /\ CallerFrame

\* A variant in which pause() also asks the attempt in flight to stop.
PauseResumeStatusCancels(c) ==
    /\ process = "running" /\ upc[c] = "pr_status"
    /\ IF ucmd[c] = "pause"
       THEN CallerUpdate(c, Disconnected, "Connection paused", "idle")
       ELSE CallerUpdate(c, Connecting, "Resuming connection...", "idle")
    /\ shouldStop' = (shouldStop \/ ucmd[c] = "pause")
    /\ UNCHANGED <<connectionInProgress, currentConfig, statusMutex,
                   ucmd, uarg, future, wpc, wst, cmdLog, process, clientVars>>

\* updateStatus(Disconnected, "Connection paused") /
\* updateStatus(Connecting, "Resuming connection...")
PauseResumeStatus(c) ==
    /\ process = "running" /\ upc[c] = "pr_status"
    /\ IF ucmd[c] = "pause"
       THEN CallerUpdate(c, Disconnected, "Connection paused", "idle")
       ELSE CallerUpdate(c, Connecting, "Resuming connection...", "idle")
    /\ UNCHANGED <<shouldStop, connectionInProgress, currentConfig, statusMutex,
                   ucmd, uarg, future, wpc, wst, cmdLog, process, clientVars>>

\* ---- reconnect(): reconnectConnection() emits RECONNECTING, stops the
\* client, starts it again with its stored config; then the manager reports.
ReconnectCall(c) ==
    /\ MayCall(c)
    /\ upc' = [upc EXCEPT ![c] = "rc_event"]
    /\ ucmd' = [ucmd EXCEPT ![c] = "reconnect"]
    /\ cmdLog' = Append(cmdLog, Cmd("reconnect", c))
    /\ UNCHANGED <<currentStatus, lastError, cvSignal, shouldStop,
                   connectionInProgress, currentConfig, statusMutex, ucb, uarg,
                   future, wpc, wst, process, clientVars>>
    /\ CallerFrame

ReconnectEvent(c) ==
    /\ process = "running" /\ upc[c] = "rc_event"
    /\ LET e == handleConnectionEvent("RECONNECTING", "Attempting to reconnect") IN
          CallerUpdate(c, e.st, e.msg, "s_lock")
    /\ UNCHANGED <<shouldStop, connectionInProgress, currentConfig, statusMutex,
                   ucmd, uarg, future, wpc, wst, cmdLog, process, clientVars>>

\* A variant of reconnectConnection that stops the client and leaves it stopped.
ReconnectRestartSkipped(c) ==
    /\ process = "running" /\ upc[c] = "rc_restart" /\ ucb[c] = NoCb
    /\ upc' = [upc EXCEPT ![c] = "rc_status"]
    /\ UNCHANGED <<currentStatus, lastError, cvSignal, shouldStop,
                   connectionInProgress, currentConfig, statusMutex, ucb, ucmd,
                   uarg, future, wpc, wst, cmdLog, process, clientVars>>
    /\ CallerFrame

\* if (!currentConfig.empty()) { sleep; startConnection(currentConfig); }
ReconnectRestart(c) ==
    /\ process = "running" /\ upc[c] = "rc_restart" /\ ucb[c] = NoCb
    /\ IF clientConfig # << >>
       THEN /\ stateMutex = NoThread
            /\ startConnection(clientConfig)
       ELSE UNCHANGED <<clientLastError, clientConfig, clientShouldStop,
                        isRunning, ctpc, process>>
    /\ upc' = [upc EXCEPT ![c] = "rc_status"]
    /\ UNCHANGED <<currentStatus, lastError, cvSignal, shouldStop,
                   connectionInProgress, currentConfig, statusMutex, ucb, ucmd,
                   uarg, future, wpc, wst, cmdLog, stateMutex, ctcb>>
    /\ CallerFrame

\* updateStatus(VpnStatus::Connecting, "Reconnecting...");
ReconnectStatus(c) ==
    /\ process = "running" /\ upc[c] = "rc_status"
    /\ CallerUpdate(c, Connecting, "Reconnecting...", "idle")
    /\ UNCHANGED <<shouldStop, connectionInProgress, currentConfig, statusMutex,
                   ucmd, uarg, future, wpc, wst, cmdLog, process, clientVars>>

CallerDeliverCallback(c) ==
    /\ process = "running"
    /\ ucb[c] # NoCb
    /\ observer' = Observe(ucb[c])
    /\ ucb' = [ucb EXCEPT ![c] = NoCb]
    /\ UNCHANGED <<protoVars, gateVars, currentStatus, lastError, shouldStop,
                   connectionInProgress, currentConfig, statusMutex, cvSignal,
                   hasCallback, upc, ucmd, uarg, future, wcb, wpc, wst,
                   cmdLog, build, process, clientVars>>

-----------------------------------------------------------------------------
(*            OpenVpnProtocol: the wrapper of the OpenVPN3 client          *)

MaxEvents == 2          \* events the OpenVPN3 library emits in one run

\* The events the library may hand to event(); PAUSED stands for every name
\* event() only logs.
LibEvents == {"CONNECTED", "DISCONNECTED", "RECONNECTING", "AUTH_FAILED",
              "CERT_VERIFY_FAIL", "TLS_ERROR", "CLIENT_RESTART", "PAUSED"}

\* event(): the status it reports and what it does to communicationBlocked.
ProtoEvent(name, info) ==
    CASE name = "CONNECTED" ->
            [st |-> Connected, msg |-> "VPN connection established", gate |-> "unblock"]
      [] name = "DISCONNECTED" ->
            [st |-> Disconnected, msg |-> IF info = "" THEN "Disconnected" ELSE info,
             gate |-> "block"]
      [] name = "RECONNECTING" ->
            [st |-> Connecting, msg |-> "Reconnecting...", gate |-> "none"]
      [] name = "AUTH_FAILED" ->
            [st |-> Error, msg |-> "Authentication failed", gate |-> "block"]
      [] name = "CERT_VERIFY_FAIL" ->
            [st |-> Error, msg |-> "Certificate verification failed", gate |-> "block"]
      [] name = "TLS_ERROR" ->
            [st |-> Error, msg |-> "TLS error: " \o info, gate |-> "block"]
      [] name = "CLIENT_RESTART" ->
            [st |-> Connecting, msg |-> "Client restarting...", gate |-> "none"]
      [] OTHER -> [st |-> "none", msg |-> "", gate |-> "none"]

\* OpenVpnProtocol::handleConnectionComplete
ProtoComplete(success, error) ==
    IF success
    THEN [st |-> Connected, msg |-> "VPN connection established successfully",
          gate |-> "unblock"]
    ELSE [st |-> Error, msg |-> IF error = "" THEN "Connection failed" ELSE error,
          gate |-> "block"]

\* pause(): the status it reports and what it does to communicationBlocked.
ProtoPause ==
    [st |-> Disconnected, msg |-> "Connection paused", gate |-> "none"]

\* readConfigFile: the content, "" (here << >>) after a failure it records
\* in lastError.
readConfigFile(path) ==
    IF ~FileReadable(path)
    THEN [content |-> << >>,
          err |-> "Failed to read config file: Cannot open config file: " \o path]
    ELSE IF FileContent(path) = << >>
    THEN [content |-> << >>,
          err |-> "Failed to read config file: Config file is empty: " \o path]
    ELSE [content |-> FileContent(path), err |-> ""]

\* eval_config of the library: it rejects what is no client configuration.
eval_config(content) ==
    LET v == validateConfig(content) IN
    [error |-> ~v.isValid, message |-> v.errorMessage]

ProtoWaitPredicate ==
    p_currentStatus = Connected \/ p_currentStatus = Error \/ p_shouldStop

\* OpenVpnProtocol::updateStatus: the write under statusMutex and notify_all.
ProtoUpdateStatus(newStatus, message) ==
    /\ p_currentStatus' = newStatus
    /\ p_lastError' = IF message # "" THEN message ELSE p_lastError
    /\ p_cvSignal' = (p_cvSignal \/ p_wpc = "waiting")

\* blockCommunication() / unblockCommunication(); `user` tells the unblock
\* of allowCommunicationWithoutVpn from the others.
ProtoGate(op, user) ==
    /\ p_communicationBlocked' = CASE op = "block" -> TRUE
                                   [] op = "unblock" -> FALSE
                                   [] OTHER -> p_communicationBlocked
    /\ p_overridden' = CASE op = "block" -> FALSE
                         [] op = "unblock" -> (p_overridden \/ user)
                         [] OTHER -> p_overridden

ProtoNewAttempt(path) ==
    [path |-> path, msg |-> "", completed |-> FALSE, ret |-> FALSE,
     result |-> "pending", timedOut |-> FALSE]
ProtoNoAttempt == [ProtoNewAttempt("") EXCEPT !.result = "none"]

VtIdle == [at |-> "none", gate |-> "none"]      \* vpnThread is not joinable
VtDone == [at |-> "done", gate |-> "none"]      \* finished, not joined

ProtoInit ==
    /\ p_currentStatus = Disconnected
    /\ p_lastError = "OpenVPN client initialized"
    /\ p_shouldStop = FALSE
    /\ p_connectionInProgress = FALSE
    /\ p_communicationBlocked = TRUE
    /\ p_currentConfig = << >>
    /\ p_statusMutex = NoThread
    /\ p_cvSignal = FALSE
    /\ p_upc = "idle"
    /\ p_uarg = ""
    /\ p_wpc = "idle"
    /\ p_wst = ProtoNoAttempt
    /\ p_vt = VtIdle
    /\ p_libStop = FALSE
    /\ p_events = 0
    /\ p_cmdLog = << >>
    /\ p_overridden = FALSE

\* What no step of the protocol wrapper touches.
ProtoFrame == UNCHANGED <<gateVars, mgrVars, clientVars, build>>

PMayCall ==
    /\ process = "running"
    /\ p_upc = "idle"
    /\ Len(p_cmdLog) < MaxCmds

\* ---- connect(configPath)
PConnectRejected(path) ==
    /\ PMayCall
    /\ p_connectionInProgress
    /\ p_cmdLog' = Append(p_cmdLog, "connect")
    /\ UNCHANGED <<p_currentStatus, p_lastError, p_shouldStop,
                   p_connectionInProgress, p_communicationBlocked,
                   p_currentConfig, p_statusMutex, p_cvSignal, p_upc, p_uarg,
                   p_wpc, p_wst, p_vt, p_libStop, p_events, p_overridden,
                   process>>
    /\ ProtoFrame

\* updateStatus(Connecting, "Starting connection...")
PConnectAccepted(path) ==
    /\ PMayCall
    /\ ~p_connectionInProgress
    /\ p_statusMutex = NoThread
    /\ ProtoUpdateStatus(Connecting, "Starting connection...")
    /\ p_upc' = "c_spawn"
    /\ p_uarg' = path
    /\ p_cmdLog' = Append(p_cmdLog, "connect")
    /\ UNCHANGED <<p_shouldStop, p_connectionInProgress, p_communicationBlocked,
                   p_currentConfig, p_statusMutex, p_wpc, p_wst, p_vt,
                   p_libStop, p_events, p_overridden, process>>
    /\ ProtoFrame

\* connectionInProgress = true; shouldStop = false; std::async(...)
PConnectSpawn ==
    /\ process = "running" /\ p_upc = "c_spawn"
    /\ p_connectionInProgress' = TRUE
    /\ p_shouldStop' = FALSE
    /\ p_wpc' = "p_read"
    /\ p_wst' = ProtoNewAttempt(p_uarg)
    \* connect returns the future; connectVpn goes on to result.wait()
    /\ p_upc' = IF p_cmdLog[Len(p_cmdLog)] = "connectVpn" THEN "cv_wait" ELSE "idle"
    /\ UNCHANGED <<p_currentStatus, p_lastError, p_communicationBlocked,
                   p_currentConfig, p_statusMutex, p_cvSignal, p_uarg, p_vt,
                   p_libStop, p_events, p_cmdLog, p_overridden, process>>
    /\ ProtoFrame

\* ---- the async worker: performConnection

\* prepareConfiguration up to eval_config
PPrepRead ==
    /\ process = "running" /\ p_wpc = "p_read"
    /\ LET r == readConfigFile(p_wst.path)
           e == eval_config(r.content)
       IN  IF r.content = << >>
           THEN /\ p_lastError' = r.err
                /\ p_wst' = [p_wst EXCEPT !.msg = "Failed to read configuration file"]
                /\ p_wpc' = "fail"
                /\ UNCHANGED p_currentConfig
           ELSE /\ p_currentConfig' = r.content
                /\ p_wst' = [p_wst EXCEPT !.msg =
                       IF e.error THEN "Configuration evaluation failed: " \o e.message
                                  ELSE ""]
                /\ p_wpc' = IF e.error THEN "fail" ELSE "p_valid"
                /\ UNCHANGED p_lastError
    /\ UNCHANGED <<p_currentStatus, p_shouldStop, p_connectionInProgress,
                   p_communicationBlocked, p_statusMutex, p_cvSignal, p_upc,
                   p_uarg, p_vt, p_libStop, p_events, p_cmdLog, p_overridden,
                   process>>
    /\ ProtoFrame

\* A worker step that is one updateStatus(st, msg) with statusMutex free.
PWorkerUpdate(st, msg, next) ==
    /\ p_statusMutex = NoThread
    /\ ProtoUpdateStatus(st, msg)
    /\ p_wpc' = next
    /\ UNCHANGED <<p_shouldStop, p_connectionInProgress, p_communicationBlocked,
                   p_currentConfig, p_statusMutex, p_upc, p_uarg, p_wst, p_vt,
                   p_libStop, p_events, p_cmdLog, p_overridden, process>>
    /\ ProtoFrame

\* handleConnectionComplete(false, msg): updateStatus(Error, msg) ...
PFail ==
    /\ process = "running" /\ p_wpc = "fail"
    /\ LET h == ProtoComplete(FALSE, p_wst.msg) IN
          PWorkerUpdate(h.st, h.msg, "fail_block")

\* ... blockCommunication(); return false;
PFailBlock ==
    /\ process = "running" /\ p_wpc = "fail_block"
    /\ ProtoGate(ProtoComplete(FALSE, p_wst.msg).gate, FALSE)
    /\ p_wpc' = "finish"
    /\ p_wst' = [p_wst EXCEPT !.ret = FALSE]
    /\ UNCHANGED <<p_currentStatus, p_lastError, p_shouldStop,
                   p_connectionInProgress, p_currentConfig, p_statusMutex,
                   p_cvSignal, p_upc, p_uarg, p_vt, p_libStop, p_events,
                   p_cmdLog, process>>
    /\ ProtoFrame

PPrepValid ==
    /\ process = "running" /\ p_wpc = "p_valid"
    /\ PWorkerUpdate(Connecting, "Configuration validated successfully", "i_establish")

PInitEstablish ==
    /\ process = "running" /\ p_wpc = "i_establish"
    /\ PWorkerUpdate(Connecting, "Establishing connection...", "i_thread")

\* vpnThread = std::thread(executeConnectionWorker): std::terminate when the
\* thread object is still joinable.
PInitThread ==
    /\ process = "running" /\ p_wpc = "i_thread"
    /\ IF p_vt = VtIdle
       THEN /\ p_vt' = [at |-> "connect", gate |-> "none"]
            /\ p_libStop' = FALSE
            /\ p_wpc' = "w_lock"
            /\ UNCHANGED process
       ELSE /\ process' = "terminated"
            /\ UNCHANGED <<p_vt, p_libStop, p_wpc>>
    /\ UNCHANGED <<p_currentStatus, p_lastError, p_shouldStop,
                   p_connectionInProgress, p_communicationBlocked,
                   p_currentConfig, p_statusMutex, p_cvSignal, p_upc, p_uarg,
                   p_wst, p_events, p_cmdLog, p_overridden>>
    /\ ProtoFrame

\* waitForConnectionCompletion: the unique_lock and the first predicate test
PWaitEnter ==
    /\ process = "running" /\ p_wpc = "w_lock"
    /\ p_statusMutex = NoThread
    /\ IF ProtoWaitPredicate
       THEN /\ p_statusMutex' = Worker(1)
            /\ p_wst' = [p_wst EXCEPT !.completed = TRUE]
            /\ p_wpc' = "w_after"
       ELSE /\ p_wpc' = "waiting"
            /\ UNCHANGED <<p_statusMutex, p_wst>>
    /\ p_cvSignal' = FALSE
    /\ UNCHANGED <<p_currentStatus, p_lastError, p_shouldStop,
                   p_connectionInProgress, p_communicationBlocked,
                   p_currentConfig, p_upc, p_uarg, p_vt, p_libStop, p_events,
                   p_cmdLog, p_overridden, process>>
    /\ ProtoFrame

\* A wake-up (notified, or spurious with the predicate true).
PWaitWake ==
    /\ process = "running" /\ p_wpc = "waiting"
    /\ p_statusMutex = NoThread
    /\ p_cvSignal \/ ProtoWaitPredicate
    /\ p_cvSignal' = FALSE
    /\ IF ProtoWaitPredicate
       THEN /\ p_statusMutex' = Worker(1)
            /\ p_wst' = [p_wst EXCEPT !.completed = TRUE]
            /\ p_wpc' = "w_after"
       ELSE UNCHANGED <<p_statusMutex, p_wst, p_wpc>>
    /\ UNCHANGED <<p_currentStatus, p_lastError, p_shouldStop,
                   p_connectionInProgress, p_communicationBlocked,
                   p_currentConfig, p_upc, p_uarg, p_vt, p_libStop, p_events,
                   p_cmdLog, p_overridden, process>>
    /\ ProtoFrame

PWaitTimeout ==
    /\ process = "running" /\ p_wpc = "waiting"
    /\ p_statusMutex = NoThread
    /\ p_statusMutex' = Worker(1)
    /\ p_cvSignal' = FALSE
    /\ p_wst' = [p_wst EXCEPT !.completed = ProtoWaitPredicate, !.timedOut = TRUE]
    /\ p_wpc' = "w_after"
    /\ UNCHANGED <<p_currentStatus, p_lastError, p_shouldStop,
                   p_connectionInProgress, p_communicationBlocked,
                   p_currentConfig, p_upc, p_uarg, p_vt, p_libStop, p_events,
                   p_cmdLog, p_overridden, process>>
    /\ ProtoFrame

\* updateStatus(st, msg) with the worker's unique_lock holding statusMutex.
PRelockedUpdate(st, msg, next) ==
    /\ p_statusMutex = Worker(1)
    /\ CASE build = "recursive" ->
              /\ ProtoUpdateStatus(st, msg)
              /\ p_wpc' = next
              /\ UNCHANGED <<p_statusMutex, p_wst>>
         [] build = "throw" ->
              /\ p_statusMutex' = NoThread
              /\ p_wst' = [p_wst EXCEPT !.msg =
                     "Error waiting for connection: Resource deadlock avoided"]
              /\ p_wpc' = "fail"
              /\ UNCHANGED <<p_currentStatus, p_lastError, p_cvSignal>>
         [] OTHER ->
              /\ p_wpc' = "deadlocked"
              /\ UNCHANGED <<p_currentStatus, p_lastError, p_cvSignal,
                             p_statusMutex, p_wst>>
    /\ UNCHANGED <<p_shouldStop, p_connectionInProgress, p_communicationBlocked,
                   p_currentConfig, p_upc, p_uarg, p_vt, p_libStop, p_events,
                   p_cmdLog, p_overridden, process>>
    /\ ProtoFrame

\* if (!completed && !shouldStop) { updateStatus(Error, "Connection timeout"); ...
PWaitTimedOut ==
    /\ process = "running" /\ p_wpc = "w_after"
    /\ ~p_wst.completed /\ ~p_shouldStop
    /\ PRelockedUpdate(Error, "Connection timeout", "cleanup")

\* if (shouldStop) { updateStatus(Disconnected, "Connection cancelled by user"); ...
PWaitCancelled ==
    /\ process = "running" /\ p_wpc = "w_after"
    /\ p_shouldStop
    /\ PRelockedUpdate(Disconnected, "Connection cancelled by user", "w_ret")

\* return currentStatus == VpnStatus::Connected;
PWaitResult ==
    /\ process = "running" /\ p_wpc = "w_after"
    /\ p_wst.completed /\ ~p_shouldStop
    /\ p_statusMutex' = NoThread
    /\ p_wst' = [p_wst EXCEPT !.ret = (p_currentStatus = Connected)]
    /\ p_wpc' = "finish"
    /\ UNCHANGED <<p_currentStatus, p_lastError, p_shouldStop,
                   p_connectionInProgress, p_communicationBlocked,
                   p_currentConfig, p_cvSignal, p_upc, p_uarg, p_vt, p_libStop,
                   p_events, p_cmdLog, p_overridden, process>>
    /\ ProtoFrame

\* cleanupFailedConnection: if (vpnThread.joinable()) { shouldStop = true; stop(); ...
PCleanupStop ==
    /\ process = "running" /\ p_wpc = "cleanup"
    /\ IF p_vt # VtIdle
       THEN /\ p_shouldStop' = TRUE
            /\ p_libStop' = TRUE
            /\ p_wpc' = "cleanup_join"
       ELSE /\ p_wpc' = "cleanup_block"
            /\ UNCHANGED <<p_shouldStop, p_libStop>>
    /\ UNCHANGED <<p_currentStatus, p_lastError, p_connectionInProgress,
                   p_communicationBlocked, p_currentConfig, p_statusMutex,
                   p_cvSignal, p_upc, p_uarg, p_wst, p_vt, p_events, p_cmdLog,
                   p_overridden, process>>
    /\ ProtoFrame

\* ... vpnThread.join(); }
PCleanupJoin ==
    /\ process = "running" /\ p_wpc = "cleanup_join"
    /\ p_vt \in {VtIdle, VtDone}
    /\ p_vt' = VtIdle
    /\ p_wpc' = "cleanup_block"
    /\ UNCHANGED <<p_currentStatus, p_lastError, p_shouldStop,
                   p_connectionInProgress, p_communicationBlocked,
                   p_currentConfig, p_statusMutex, p_cvSignal, p_upc, p_uarg,
                   p_wst, p_libStop, p_events, p_cmdLog, p_overridden, process>>
    /\ ProtoFrame

\* blockCommunication(); at the end of cleanupFailedConnection
PCleanupBlock ==
    /\ process = "running" /\ p_wpc = "cleanup_block"
    /\ ProtoGate("block", FALSE)
    /\ p_wpc' = "w_ret"
    /\ UNCHANGED <<p_currentStatus, p_lastError, p_shouldStop,
                   p_connectionInProgress, p_currentConfig, p_statusMutex,
                   p_cvSignal, p_upc, p_uarg, p_wst, p_vt, p_libStop, p_events,
                   p_cmdLog, process>>
    /\ ProtoFrame

\* return false; the unique_lock is released
PWaitReturn ==
    /\ process = "running" /\ p_wpc = "w_ret"
    /\ p_statusMutex' = NoThread
    /\ p_wst' = [p_wst EXCEPT !.ret = FALSE]
    /\ p_wpc' = "finish"
    /\ UNCHANGED <<p_currentStatus, p_lastError, p_shouldStop,
                   p_connectionInProgress, p_communicationBlocked,
                   p_currentConfig, p_cvSignal, p_upc, p_uarg, p_vt, p_libStop,
                   p_events, p_cmdLog, p_overridden, process>>
    /\ ProtoFrame

\* the Cleanup of connect()'s lambda: connectionInProgress = false
PFinish ==
    /\ process = "running" /\ p_wpc = "finish"
    /\ p_connectionInProgress' = FALSE
    /\ p_wst' = [p_wst EXCEPT !.result = IF p_wst.ret THEN "true" ELSE "false"]
    /\ p_wpc' = "idle"
    /\ UNCHANGED <<p_currentStatus, p_lastError, p_shouldStop,
                   p_communicationBlocked, p_currentConfig, p_statusMutex,
                   p_cvSignal, p_upc, p_uarg, p_vt, p_libStop, p_events,
                   p_cmdLog, p_overridden, process>>
    /\ ProtoFrame

\* ---- vpnThread: executeConnectionWorker and the library's callbacks

\* A step of vpnThread that is one updateStatus(st, msg), owing `gate`.
PThreadUpdate(st, msg, at, gate) ==
    /\ p_statusMutex = NoThread
    /\ ProtoUpdateStatus(st, msg)
    /\ p_vt' = [at |-> at, gate |-> gate]
    /\ UNCHANGED <<p_shouldStop, p_connectionInProgress, p_communicationBlocked,
                   p_currentConfig, p_statusMutex, p_upc, p_uarg, p_wpc, p_wst,
                   p_libStop, p_cmdLog, p_overridden, process>>
    /\ ProtoFrame

\* event(ev) for an event that changes the status: updateStatus(...) ...
PLibEvent(name) ==
    /\ process = "running" /\ p_vt.at = "connect"
    /\ p_events < MaxEvents
    /\ ProtoEvent(name, "") .st # "none"
    /\ p_events' = p_events + 1
    /\ LET e == ProtoEvent(name, "") IN
          PThreadUpdate(e.st, e.msg, IF e.gate = "none" THEN "connect" ELSE "ev_gate",
                        e.gate)

\* event(ev) for an event that is only logged
PLibEventLogged(name) ==
    /\ process = "running" /\ p_vt.at = "connect"
    /\ p_events < MaxEvents
    /\ ProtoEvent(name, "") .st = "none"
    /\ p_events' = p_events + 1
    /\ UNCHANGED <<p_currentStatus, p_lastError, p_shouldStop,
                   p_connectionInProgress, p_communicationBlocked,
                   p_currentConfig, p_statusMutex, p_cvSignal, p_upc, p_uarg,
                   p_wpc, p_wst, p_vt, p_libStop, p_cmdLog, p_overridden,
                   process>>
    /\ ProtoFrame

\* ... then blockCommunication() / unblockCommunication()
PLibEventGate ==
    /\ process = "running" /\ p_vt.at = "ev_gate"
    /\ ProtoGate(p_vt.gate, FALSE)
    /\ p_vt' = [at |-> "connect", gate |-> "none"]
    /\ UNCHANGED <<p_currentStatus, p_lastError, p_shouldStop,
                   p_connectionInProgress, p_currentConfig, p_statusMutex,
                   p_cvSignal, p_upc, p_uarg, p_wpc, p_wst, p_libStop,
                   p_events, p_cmdLog, process>>
    /\ ProtoFrame

\* OpenVPNClient::connect() returns: with an error at any time, without one
\* once stop() was asked.  handleConnectionComplete: updateStatus(...) ...
PLibReturn(error) ==
    /\ process = "running" /\ p_vt.at = "connect"
    /\ error \/ p_libStop
    /\ LET h == ProtoComplete(~error, IF error THEN "Connection failed: library error"
                                               ELSE "")
       IN  PThreadUpdate(h.st, h.msg, "ret_gate", h.gate)
    /\ UNCHANGED p_events

\* ... then blockCommunication() / unblockCommunication(); the thread ends
PLibReturnGate ==
    /\ process = "running" /\ p_vt.at = "ret_gate"
    /\ ProtoGate(p_vt.gate, FALSE)
    /\ p_vt' = VtDone
    /\ UNCHANGED <<p_currentStatus, p_lastError, p_shouldStop,
                   p_connectionInProgress, p_currentConfig, p_statusMutex,
                   p_cvSignal, p_upc, p_uarg, p_wpc, p_wst, p_libStop,
                   p_events, p_cmdLog, process>>
    /\ ProtoFrame

\* ---- the other commands

\* A caller step that is one updateStatus(st, msg).
PCallerUpdate(st, msg, next) ==
    /\ p_statusMutex = NoThread
    /\ ProtoUpdateStatus(st, msg)
    /\ p_upc' = next
    /\ UNCHANGED <<p_connectionInProgress, p_currentConfig, p_statusMutex,
                   p_uarg, p_wpc, p_wst, p_vt, p_events, process>>
    /\ ProtoFrame

\* disconnect(): if (currentStatus == Disconnected) return;
PDisconnectNoop ==
    /\ PMayCall
    /\ p_currentStatus = Disconnected
    /\ p_cmdLog' = Append(p_cmdLog, "disconnect")
    /\ UNCHANGED <<p_currentStatus, p_lastError, p_shouldStop,
                   p_connectionInProgress, p_communicationBlocked,
                   p_currentConfig, p_statusMutex, p_cvSignal, p_upc, p_uarg,
                   p_wpc, p_wst, p_vt, p_libStop, p_events, p_overridden,
                   process>>
    /\ ProtoFrame

\* updateStatus(Disconnected, "Disconnecting...");
PDisconnectCall ==
    /\ PMayCall
    /\ p_currentStatus # Disconnected
    /\ PCallerUpdate(Disconnected, "Disconnecting...", "d_stop")
    /\ p_cmdLog' = Append(p_cmdLog, "disconnect")
    /\ UNCHANGED <<p_shouldStop, p_communicationBlocked, p_libStop, p_overridden>>

\* shouldStop = true; OpenVPNClient::stop();
PDisconnectStop ==
    /\ process = "running" /\ p_upc = "d_stop"
    /\ p_shouldStop' = TRUE
    /\ p_libStop' = (p_libStop \/ p_vt.at \in {"connect", "ev_gate"})
    /\ p_upc' = "d_join"
    /\ UNCHANGED <<p_currentStatus, p_lastError, p_connectionInProgress,
                   p_communicationBlocked, p_currentConfig, p_statusMutex,
                   p_cvSignal, p_uarg, p_wpc, p_wst, p_vt, p_events, p_cmdLog,
                   p_overridden, process>>
    /\ ProtoFrame

\* if (vpnThread.joinable()) vpnThread.join();
PDisconnectJoin ==
    /\ process = "running" /\ p_upc = "d_join"
    /\ p_vt \in {VtIdle, VtDone}
    /\ p_vt' = VtIdle
    /\ p_upc' = "d_block"
    /\ UNCHANGED <<p_currentStatus, p_lastError, p_shouldStop,
                   p_connectionInProgress, p_communicationBlocked,
                   p_currentConfig, p_statusMutex, p_cvSignal, p_uarg, p_wpc,
                   p_wst, p_libStop, p_events, p_cmdLog, p_overridden, process>>
    /\ ProtoFrame

\* blockCommunication();
PDisconnectBlock ==
    /\ process = "running" /\ p_upc = "d_block"
    /\ ProtoGate("block", FALSE)
    /\ p_upc' = "d_final"
    /\ UNCHANGED <<p_currentStatus, p_lastError, p_shouldStop,
                   p_connectionInProgress, p_currentConfig, p_statusMutex,
                   p_cvSignal, p_uarg, p_wpc, p_wst, p_vt, p_libStop, p_events,
                   p_cmdLog, process>>
    /\ ProtoFrame

\* updateStatus(Disconnected, "Disconnected successfully");
PDisconnectFinal ==
    /\ process = "running" /\ p_upc = "d_final"
    /\ PCallerUpdate(Disconnected, "Disconnected successfully", "idle")
    /\ UNCHANGED <<p_shouldStop, p_communicationBlocked, p_libStop, p_cmdLog,
                   p_overridden>>

\* pause(): OpenVPNClient::pause(...); updateStatus(Disconnected, ...)
PPause ==
    /\ PMayCall
    /\ PCallerUpdate(ProtoPause.st, ProtoPause.msg, "idle")
    /\ ProtoGate(ProtoPause.gate, FALSE)
    /\ p_cmdLog' = Append(p_cmdLog, "pause")
    /\ UNCHANGED <<p_shouldStop, p_libStop>>

\* resume(): OpenVPNClient::resume(); updateStatus(Connecting, ...)
PResume ==
    /\ PMayCall
    /\ PCallerUpdate(Connecting, "Resuming connection...", "idle")
    /\ p_cmdLog' = Append(p_cmdLog, "resume")
    /\ UNCHANGED <<p_shouldStop, p_communicationBlocked, p_libStop, p_overridden>>

\* reconnect(): OpenVPNClient::reconnect(1); updateStatus(Connecting, ...)
PReconnect ==
    /\ PMayCall
    /\ PCallerUpdate(Connecting, "Reconnecting...", "idle")
    /\ p_cmdLog' = Append(p_cmdLog, "reconnect")
    /\ UNCHANGED <<p_shouldStop, p_communicationBlocked, p_libStop, p_overridden>>

\* allowCommunicationWithoutVpn(): unblockCommunication(); ...
PAllowCall ==
    /\ PMayCall
    /\ ProtoGate("unblock", TRUE)
    /\ p_upc' = "a_status"
    /\ p_cmdLog' = Append(p_cmdLog, "allowCommunicationWithoutVpn")
    /\ UNCHANGED <<p_currentStatus, p_lastError, p_shouldStop,
                   p_connectionInProgress, p_currentConfig, p_statusMutex,
                   p_cvSignal, p_uarg, p_wpc, p_wst, p_vt, p_libStop, p_events,
                   process>>
    /\ ProtoFrame

\* ... updateStatus(Disconnected, "Communication allowed without VPN");
PAllowStatus ==
    /\ process = "running" /\ p_upc = "a_status"
    /\ PCallerUpdate(Disconnected, "Communication allowed without VPN", "idle")
    /\ UNCHANGED <<p_shouldStop, p_communicationBlocked, p_libStop, p_cmdLog,
                   p_overridden>>

ProtoNext ==
    \/ \E path \in Paths : PConnectRejected(path)
    \/ \E path \in Paths : PConnectAccepted(path)
    \/ PConnectSpawn
    \/ PPrepRead
    \/ PFail
    \/ PFailBlock
    \/ PPrepValid
    \/ PInitEstablish
    \/ PInitThread
    \/ PWaitEnter
    \/ PWaitWake
    \/ PWaitTimeout
    \/ PWaitTimedOut
    \/ PWaitCancelled
    \/ PWaitResult
    \/ PCleanupStop
    \/ PCleanupJoin
    \/ PCleanupBlock
    \/ PWaitReturn
    \/ PFinish
    \/ \E name \in LibEvents : PLibEvent(name)
    \/ \E name \in LibEvents : PLibEventLogged(name)
    \/ PLibEventGate
    \/ \E error \in BOOLEAN : PLibReturn(error)
    \/ PLibReturnGate
    \/ PDisconnectNoop
    \/ PDisconnectCall
    \/ PDisconnectStop
    \/ PDisconnectJoin
    \/ PDisconnectBlock
    \/ PDisconnectFinal
    \/ PPause
    \/ PResume
    \/ PReconnect
    \/ PAllowCall
    \/ PAllowStatus

\* ---- VpnController::connectVpn(configPath): auto result =
\* vpn.connect(configPath); result.wait(); emit statusChanged();

\* connect refuses: the future is deferred, wait() runs its lambda at once.
connectVpnRejected(path) ==
    /\ PMayCall
    /\ p_connectionInProgress
    /\ p_cmdLog' = Append(p_cmdLog, "connectVpn")
    /\ UNCHANGED <<p_currentStatus, p_lastError, p_shouldStop,
                   p_connectionInProgress, p_communicationBlocked,
                   p_currentConfig, p_statusMutex, p_cvSignal, p_upc, p_uarg,
                   p_wpc, p_wst, p_vt, p_libStop, p_events, p_overridden,
                   process>>
    /\ ProtoFrame

connectVpnAccepted(path) ==
    /\ PMayCall
    /\ ~p_connectionInProgress
    /\ p_statusMutex = NoThread
    /\ ProtoUpdateStatus(Connecting, "Starting connection...")
    /\ p_upc' = "c_spawn"
    /\ p_uarg' = path
    /\ p_cmdLog' = Append(p_cmdLog, "connectVpn")
    /\ UNCHANGED <<p_shouldStop, p_connectionInProgress, p_communicationBlocked,
                   p_currentConfig, p_statusMutex, p_wpc, p_wst, p_vt,
                   p_libStop, p_events, p_overridden, process>>
    /\ ProtoFrame

\* result.wait() returns when the async worker has set the future's value.
connectVpnWait ==
    /\ process = "running" /\ p_upc = "cv_wait"
    /\ p_wst.result # "pending"
    /\ p_upc' = "idle"
    /\ UNCHANGED <<p_currentStatus, p_lastError, p_shouldStop,
                   p_connectionInProgress, p_communicationBlocked,
                   p_currentConfig, p_statusMutex, p_cvSignal, p_uarg, p_wpc,
                   p_wst, p_vt, p_libStop, p_events, p_cmdLog, p_overridden,
                   process>>
    /\ ProtoFrame

ControllerNext ==
    \/ ProtoNext
    \/ \E path \in Paths : connectVpnRejected(path)
    \/ \E path \in Paths : connectVpnAccepted(path)
    \/ connectVpnWait

-----------------------------------------------------------------------------
(*                    Construction and specifications                      *)

MgrInit ==
    /\ currentStatus = Disconnected
    /\ lastError = ""
    /\ shouldStop = FALSE
    /\ connectionInProgress = FALSE
    /\ currentConfig = << >>
    /\ statusMutex = NoThread
    /\ cvSignal = {}
    /\ hasCallback = FALSE
    /\ observer = "none"
    /\ ucb = [c \in Callers |-> NoCb]
    /\ upc = [c \in Callers |-> "idle"]
    /\ ucmd = [c \in Callers |-> "none"]
    /\ uarg = [c \in Callers |-> ""]
    /\ future = [c \in Callers |-> NoFuture]
    /\ wcb = [w \in Workers |-> NoCb]
    /\ wpc = [w \in Workers |-> "idle"]
    /\ wst = [w \in Workers |-> NoAttempt]
    /\ cmdLog = << >>
    /\ build \in Builds
    /\ process = "running"

Init == GateInit /\ MgrInit /\ ClientInit /\ ProtoInit

Next ==
    \/ setStatusCallback
    \/ \E c \in Callers, path \in Paths : ConnectRejected(c, path)
    \/ \E c \in Callers, path \in Paths : ConnectAccepted(c, path)
    \/ \E c \in Callers : ConnectStatus(c)
    \/ \E c \in Callers : ConnectSpawn(c)
    \/ \E c \in Foreground : DisconnectNoop(c)
    \/ \E c \in Foreground : DisconnectCall(c)
    \/ \E c \in Callers : DisconnectStatus(c)
    \/ \E c \in Callers : DisconnectFlag(c)
    \/ \E c \in Callers : StopLock(c)
    \/ \E c \in Callers : StopJoin(c)
    \/ \E c \in Callers : StopEvent(c)
    \/ \E c \in Callers : DisconnectFinal(c)
    \/ \E c \in Foreground, op \in {"pause", "resume"} : PauseResumeCall(c, op)
    \/ \E c \in Callers : PauseResumeLock(c)
    \/ \E c \in Callers : PauseResumeEvent(c)
    \/ \E c \in Callers : PauseResumeUnlock(c)
    \/ \E c \in Callers : PauseResumeStatus(c)
    \/ \E c \in Foreground : ReconnectCall(c)
    \/ \E c \in Callers : ReconnectEvent(c)
    \/ \E c \in Callers : ReconnectRestart(c)
    \/ \E c \in Callers : ReconnectStatus(c)
    \/ \E c \in Callers : CallerDeliverCallback(c)
    \/ \E w \in Workers : PrepLoading(w)
    \/ \E w \in Workers : PrepLoad(w)
    \/ \E w \in Workers : Fail(w)
    \/ \E w \in Workers : PrepValid(w)
    \/ \E w \in Workers : InitEstablish(w)
    \/ \E w \in Workers : InitStart(w)
    \/ \E w \in Workers : InitGetError(w)
    \/ \E w \in Workers : InitStarted(w)
    \/ \E w \in Workers : WaitLock(w)
    \/ \E w \in Workers : WaitStatus(w)
    \/ \E w \in Workers : WaitEnter(w)
    \/ \E w \in Workers : WaitWake(w)
    \/ \E w \in Workers : WaitSpurious(w)
    \/ \E w \in Workers : WaitTimeout(w)
    \/ \E w \in Workers : WaitCancelled(w)
    \/ \E w \in Workers : WaitTimedOut(w)
    \/ \E w \in Workers : WaitResult(w)
    \/ \E w \in Workers : WaitReturn(w)
    \/ \E w \in Workers : Finish(w)
    \/ \E w \in Workers : WorkerDeliverCallback(w)
    \/ ClientStepCheck
    \/ ClientStepEmit
    \/ ClientFinalCheck
    \/ ClientEmitConnected
    \/ ClientKeepAliveEnd
    \/ ClientDeliverCallback

Spec == Init /\ [][Next]_vars

\* ---- ~VpnConnectionManager(): disconnect(); if (connectionThread.joinable())
\* connectionThread.join(); and then the members are destroyed in reverse
\* order of declaration, vpnClient last.
DestructorCall(c) ==
    /\ MayCall(c)
    /\ cmdLog' = Append(cmdLog, Cmd("destroy", c))
    /\ ucmd' = [ucmd EXCEPT ![c] = "destroy"]
    \* disconnect(): if (currentStatus == VpnStatus::Disconnected) return;
    /\ upc' = [upc EXCEPT ![c] = IF currentStatus = Disconnected THEN "x_client"
                                                                ELSE "d_status"]
    /\ UNCHANGED <<currentStatus, lastError, cvSignal, shouldStop,
                   connectionInProgress, currentConfig, statusMutex, ucb, uarg,
                   future, wpc, wst, process, clientVars>>
    /\ CallerFrame

\* The manager's connectionThread is never started, so it is not joinable.
\* ~OpenVpnClient(): stopConnection(): { lock_guard; if (!isRunning) return;
\* shouldStop = true; isRunning = false; }
DestructorClient(c) ==
    /\ process = "running" /\ upc[c] = "x_client" /\ ucb[c] = NoCb
    /\ stateMutex = NoThread
    /\ IF isRunning
       THEN /\ clientShouldStop' = TRUE
            /\ isRunning' = FALSE
            /\ upc' = [upc EXCEPT ![c] = "x_join"]
            /\ UNCHANGED process
       ELSE /\ upc' = [upc EXCEPT ![c] = "idle"]
            /\ process' = "destroyed"
            /\ UNCHANGED <<clientShouldStop, isRunning>>
    /\ UNCHANGED <<currentStatus, lastError, cvSignal, shouldStop,
                   connectionInProgress, currentConfig, statusMutex, ucb, ucmd,
                   uarg, future, wpc, wst, cmdLog, clientConfig,
                   clientLastError, stateMutex, ctpc, ctcb>>
    /\ CallerFrame

\* connectionThread.join(); handleInternalEvent("DISCONNECTED", ...): the
\* handler the manager registered runs updateStatus on a manager whose
\* statusMutex, statusCv and statusCallback are already destroyed.  That is
\* undefined: the build either gets through it or ends the process.
DestructorClientJoin(c) ==
    /\ process = "running" /\ upc[c] = "x_join"
    /\ ctpc \in {NotStarted, Finished}
    /\ ctpc' = NotStarted
    /\ upc' = [upc EXCEPT ![c] = "idle"]
    /\ process' \in {"destroyed", "terminated"}
    /\ UNCHANGED <<currentStatus, lastError, cvSignal, shouldStop,
                   connectionInProgress, currentConfig, statusMutex, ucb, ucmd,
                   uarg, future, wpc, wst, cmdLog, isRunning,
                   clientShouldStop, clientConfig, clientLastError, stateMutex,
                   ctcb>>
    /\ CallerFrame

TeardownNext ==
    \/ Next
    \/ \E c \in Foreground : DestructorCall(c)
    \/ \E c \in Foreground : DestructorClient(c)
    \/ \E c \in Foreground : DestructorClientJoin(c)

TeardownSpec == Init /\ [][TeardownNext]_vars

\* ---- OpenVpnClient on its own: one thread calls startConnection,
\* stopConnection and (through the manager's reconnect) reconnectConnection
\* on the client the manager constructed, whose event handler is the
\* manager's handleConnectionEvent.
MaxClientCalls == 3     \* calls of the client's operations in one run

Contents == {<< >>, FileContent("good.ovpn"), FileContent("noclient.ovpn")}

ClientMayCall(c) ==
    /\ process = "running"
    /\ upc[c] = "idle" /\ ucb[c] = NoCb
    /\ Len(cmdLog) < MaxClientCalls

\* bool started = startConnection(content); the call is entered in cmdLog
\* with its argument and the value it returned.
ClientStart(c, content) ==
    /\ ClientMayCall(c)
    /\ stateMutex = NoThread
    /\ startConnection(content)
    /\ cmdLog' = Append(cmdLog, [op |-> "startConnection", by |-> c, arg |-> content,
                                 ret |-> (StartOutcome(content) = "ok")])
    /\ UNCHANGED <<currentStatus, lastError, cvSignal, shouldStop,
                   connectionInProgress, currentConfig, statusMutex, ucb, upc,
                   ucmd, uarg, future, wpc, wst, stateMutex, ctcb>>
    /\ CallerFrame

ClientStop(c) ==
    /\ ClientMayCall(c)
    /\ upc' = [upc EXCEPT ![c] = "s_lock"]
    /\ ucmd' = [ucmd EXCEPT ![c] = "stopConnection"]
    /\ cmdLog' = Append(cmdLog, [op |-> "stopConnection", by |-> c,
                                 arg |-> << >>, ret |-> isRunning])
    /\ UNCHANGED <<currentStatus, lastError, cvSignal, shouldStop,
                   connectionInProgress, currentConfig, statusMutex, ucb, uarg,
                   future, wpc, wst, process, clientVars>>
    /\ CallerFrame

ClientReconnect(c) ==
    /\ ClientMayCall(c)
    /\ upc' = [upc EXCEPT ![c] = "rc_event"]
    /\ ucmd' = [ucmd EXCEPT ![c] = "reconnect"]
    /\ cmdLog' = Append(cmdLog, [op |-> "reconnect", by |-> c,
                                 arg |-> clientConfig, ret |-> isRunning])
    /\ UNCHANGED <<currentStatus, lastError, cvSignal, shouldStop,
                   connectionInProgress, currentConfig, statusMutex, ucb, uarg,
                   future, wpc, wst, process, clientVars>>
    /\ CallerFrame

ClientNext ==
    \/ \E c \in Foreground, content \in Contents : ClientStart(c, content)
    \/ \E c \in Foreground : ClientStop(c)
    \/ \E c \in Foreground : ClientReconnect(c)
    \/ \E c \in Foreground : StopLock(c)
    \/ \E c \in Foreground : StopJoin(c)
    \/ \E c \in Foreground : StopEvent(c)
    \/ \E c \in Foreground : ReconnectEvent(c)
    \/ \E c \in Foreground : ReconnectRestart(c)
    \/ \E c \in Foreground : ReconnectStatus(c)
    \/ ClientStepCheck
    \/ ClientStepEmit
    \/ ClientFinalCheck
    \/ ClientEmitConnected
    \/ ClientKeepAliveEnd

ControllerSpec == Init /\ [][ControllerNext]_vars

ClientSpec == Init /\ [][ClientNext]_vars

\* ---- validateConfig on its own: prepareConfiguration from createConfig on
\* (currentConfig = createConfig(content); validateConfig(currentConfig); the
\* test of isValid), applied by a worker to a content drawn from the
\* sequences of at most MaxDirectives directives.
MaxDirectives == 4      \* directives in a drawn configuration

Directives ==
    {"remote ", "client", "cert ", "<cert>", "auth-user-pass", "cipher none",
     "auth none", "verify-x509-name"}

ConfigContents == UNION {[1..n -> Directives] : n \in 1..MaxDirectives}

PrepareContent(w, content) ==
    /\ process = "running" /\ wpc[w] = "idle" /\ wst[w] = NoAttempt
    /\ LET v == validateConfig(content) IN
          /\ currentConfig' = content
          /\ wst' = [wst EXCEPT ![w] =
                 [NewAttempt("ui", "") EXCEPT
                    !.msg = IF v.isValid THEN ""
                            ELSE "Configuration validation failed: " \o v.errorMessage]]
          /\ wpc' = [wpc EXCEPT ![w] = IF v.isValid THEN "p_valid" ELSE "fail"]
    /\ UNCHANGED <<currentStatus, lastError, cvSignal, shouldStop,
                   connectionInProgress, statusMutex, wcb, process, clientVars>>
    /\ WorkerFrame

ValidateNext == \E content \in ConfigContents : PrepareContent(1, content)

ValidateSpec == Init /\ [][ValidateNext]_vars

\* ---- handleConnectionEvent on its own: the handler the manager registers
\* with the client is applied to event names drawn from a set wider than the
\* names OpenVpnClient emits.  ctpc.at holds the name of the event delivered
\* last, ctpc.i how many were delivered.
MaxHandled == 3         \* events handed to the handler in one run

RecognizedEvents ==
    {"CONNECTED", "DISCONNECTED", "RECONNECTING", "CONNECTING", "PAUSED", "RESUMED"}
FatalEvents == {"AUTH_FAILED", "CERT_VERIFY_FAIL", "TLS_ERROR"}
EventNames == RecognizedEvents \cup FatalEvents \cup {"INFO"}
EventInfos == {"", "detail"}

\* An event handleConnectionEvent translates into an updateStatus.
HandleEvent(name, info) ==
    /\ process = "running"
    /\ ctpc.i < MaxHandled /\ ctcb = NoCb
    /\ statusMutex = NoThread
    /\ handleConnectionEvent(name, info) # NoCb
    /\ LET e == handleConnectionEvent(name, info) IN
          /\ updateStatus(e.st, e.msg)
          /\ ctcb' = OwedCallback(e.st, e.msg)
    /\ ctpc' = At(name, ctpc.i + 1)
    /\ UNCHANGED <<protoVars, gateVars, shouldStop, connectionInProgress,
                   currentConfig, statusMutex, hasCallback, observer, ucb, upc,
                   ucmd, uarg, future, wcb, wpc, wst, cmdLog, build, process,
                   isRunning, clientShouldStop, clientConfig, clientLastError,
                   stateMutex>>

\* A variant whose else branch reports an error for the events it does not know.
HandleEventLoggedAsError(name, info) ==
    /\ process = "running"
    /\ ctpc.i < MaxHandled /\ ctcb = NoCb
    /\ statusMutex = NoThread
    /\ handleConnectionEvent(name, info) = NoCb
    /\ updateStatus(Error, "Event: " \o name)
    /\ ctcb' = OwedCallback(Error, "Event: " \o name)
    /\ ctpc' = At(name, ctpc.i + 1)
    /\ UNCHANGED <<protoVars, gateVars, shouldStop, connectionInProgress,
                   currentConfig, statusMutex, hasCallback, observer, ucb, upc,
                   ucmd, uarg, future, wcb, wpc, wst, cmdLog, build, process,
                   isRunning, clientShouldStop, clientConfig, clientLastError,
                   stateMutex>>

\* else { handleLogMessage(3, "Event: " + eventName + " - " + info); }
HandleEventLogged(name, info) ==
    /\ process = "running"
    /\ ctpc.i < MaxHandled /\ ctcb = NoCb
    /\ handleConnectionEvent(name, info) = NoCb
    /\ ctpc' = At(name, ctpc.i + 1)
    /\ UNCHANGED <<protoVars, gateVars, sysVars, mgrVars, isRunning,
                   clientShouldStop, clientConfig, clientLastError, stateMutex,
                   ctcb>>

HandlerNext ==
    \/ setStatusCallback
    \/ \E name \in EventNames, info \in EventInfos : HandleEvent(name, info)
    \/ \E name \in EventNames, info \in EventInfos : HandleEventLogged(name, info)
    \/ ClientDeliverCallback

HandlerSpec == Init /\ [][HandlerNext]_vars

GateSpec == Init /\ [][GateNext]_vars

GateRaceSpec == Init /\ [][GateRaceNext]_vars

\* The gate with platform calls that may fail.
GateFaultNext ==
    \/ GateRaceNext
    \/ \E t \in 1..MaxGateThreads : GateInstallFails(t)

GateFaultSpec == Init /\ [][GateFaultNext]_vars

ProtoSpec == Init /\ [][ProtoNext]_vars

-----------------------------------------------------------------------------
(*                              Properties                                 *)

\* prepareConfiguration fails for `path`: the load throws, or the loaded
\* content does not validate.
ConfigFails(path) ==
    \/ ~loadConfigFromFile(path).ok
    \/ ~validateConfig(loadConfigFromFile(path).content).isValid

\* C1 -- No unprotected traffic while disconnected or errored: whenever no
\* operation of the protocol wrapper is mid-execution, the status is
\* Disconnected or Error and allowCommunicationWithoutVpn() was not called
\* since the last block, communicationBlocked is true.
C1_NoUnprotectedTraffic ==
    ( /\ p_upc = "idle"
      /\ p_wpc = "idle"
      /\ p_vt.at \in {"none", "connect", "done"}
      /\ p_currentStatus \in {Disconnected, Error}
      /\ ~p_overridden )
    => p_communicationBlocked

\* C2 -- Successful path: a lone connect(path) with a valid configuration
\* whose wait does not time out can resolve (its worker never blocks for
\* good), does not resolve false, and once it has resolved true the status is
\* Connected and communication is unblocked.
C2_SuccessResolvesConnectedUnblocked ==
    \A w \in Workers :
        ( /\ cmdLog = <<Cmd("connect", wst[w].owner)>>
          /\ wst[w].result # "none"
          /\ ~ConfigFails(wst[w].path)
          /\ ~wst[w].timedOut )
        => /\ wpc[w] # "deadlocked"
           /\ wst[w].result # "false"
           /\ wst[w].result = "true" =>
                 currentStatus = Connected /\ ~communicationBlocked

C4_TimeoutResolvesFalseError ==
    \A w \in Workers :
        ( /\ cmdLog = <<Cmd("connect", wst[w].owner)>>
          /\ wst[w].started
          /\ wst[w].timedOut /\ ~wst[w].completed
          /\ ctpc.at \in {"check", "emit", "final", "connected"}
          /\ wpc[w] = "idle" )
        => wst[w].result = "false" /\ currentStatus = Error

\* C5 -- A timed-out attempt cancels the client: once a lone connect has
\* resolved false because its wait timed out, the client is not running and
\* the status is not Connected.
C5_TimedOutAttemptStopsClient ==
    \A w \in Workers :
        ( /\ cmdLog = <<Cmd("connect", wst[w].owner)>>
          /\ wst[w].timedOut /\ ~wst[w].completed
          /\ wpc[w] = "idle"
          /\ wst[w].result = "false" )
        => ~isRunning /\ currentStatus # Connected

\* C6 -- A connect() call made while connectionInProgress is set is rejected
\* without mutating anything: it returns the deferred future of false, spawns
\* no worker, leaves currentStatus, lastError, currentConfig, shouldStop and
\* connectionInProgress as they were, and owes no observer notification.
C6_RejectedConnectMutatesNothing ==
    [][ \A c \in Callers :
          (connectionInProgress /\ cmdLog' = Append(cmdLog, Cmd("connect", c)))
          => /\ future'[c] = [kind |-> "deferred", w |-> 0]
             /\ UNCHANGED <<currentStatus, lastError, currentConfig, shouldStop,
                            connectionInProgress, observer, ucb, wcb, ctcb,
                            wpc, wst>> ]_vars

\* A caller holds the deferred future of a rejected connect while the
\* attempt that caused the rejection is still in flight.
C6_Witness ==
    \E c \in Callers :
        /\ future[c].kind = "deferred"
        /\ connectionInProgress
        /\ \E w \in Workers : wpc[w] # "idle"

\* C7 -- At most one performConnection worker is executing at any time.
C7_AtMostOneWorker ==
    Cardinality({w \in Workers : wpc[w] # "idle"}) <= 1

\* C8 -- Fail-closed default: after construction and before any operation
\* every communicationBlocked flag is true, killSwitchEnabled is false and
\* the connection state is Disconnected.
C8_FailClosedDefault ==
    (gateLog = << >> /\ cmdLog = << >> /\ p_cmdLog = << >> /\ ~hasCallback)
    => /\ communicationBlocked
       /\ ~killSwitchEnabled
       /\ p_communicationBlocked
       /\ draftCommunicationBlocked
       /\ currentStatus = Disconnected
       /\ p_currentStatus = Disconnected

\* C9 -- Kill switch precedence: after any call of blockCommunication() made
\* with killSwitchEnabled set, the installed filter is the kill-switch one
\* (never the basic one) and communication is blocked.
C9_KillSwitchPrecedence ==
    ( /\ gateLog # << >>
      /\ gateLog[Len(gateLog)] = "blockCommunication"
      /\ killSwitchEnabled )
    => firewall = blockAllTraffic /\ communicationBlocked

\* blockCommunication() was called twice in a row with the kill switch on.
C9_Witness ==
    /\ gateLog = <<"enableKillSwitch", "blockCommunication", "blockCommunication">>
    /\ killSwitchEnabled
    /\ firewall = blockAllTraffic

\* C10 -- disableKillSwitch() called while communicationBlocked is true
\* leaves communicationBlocked true and installs the basic filter.
C10_DisableKillSwitchStaysBlocked ==
    [][ (communicationBlocked /\ gateLog' = Append(gateLog, "disableKillSwitch"))
        => /\ communicationBlocked'
           /\ firewall' = setupBasicFirewallRules
           /\ ~killSwitchEnabled' ]_vars

\* The kill switch was enabled and then disabled with communication blocked.
C10_Witness ==
    /\ gateLog = <<"enableKillSwitch", "disableKillSwitch">>
    /\ communicationBlocked
    /\ firewall = setupBasicFirewallRules
    /\ ~killSwitchEnabled

\* C11 -- The installed filter is exactly the function of the two flags of
\* the security gate: not blocked -> no filter; blocked without kill switch
\* -> the basic filter; blocked with kill switch -> the kill-switch filter.
C11_FilterIsFunctionOfFlags ==
    firewall = IF ~communicationBlocked THEN removeFirewallRules
               ELSE IF killSwitchEnabled THEN blockAllTraffic
               ELSE setupBasicFirewallRules

\* C12 -- Disconnect idempotence: disconnect() called when the state is
\* Disconnected changes neither the state nor lastError nor shouldStop, owes
\* no StatusObserver notification, does not touch the client and installs or
\* removes no filter.
C12_DisconnectIdempotent ==
    [][ \A c \in Callers :
          (currentStatus = Disconnected
             /\ cmdLog' = Append(cmdLog, Cmd("disconnect", c)))
          => UNCHANGED <<currentStatus, lastError, shouldStop,
                         connectionInProgress, observer, ucb, wcb, upc,
                         clientVars, gateVars>> ]_vars

\* disconnect() was called on the freshly constructed manager and returned.
C12_Witness ==
    /\ cmdLog = <<Cmd("disconnect", "ui")>>
    /\ upc["ui"] = "idle"
    /\ ucmd["ui"] = "none"
    /\ currentStatus = Disconnected

\* C13 -- After disconnect() has returned, having been called in state
\* Connected or Connecting, and until the next command: the client is
\* stopped, communication is blocked and the state is Disconnected.
C13_DisconnectedAfterDisconnect ==
    ( /\ cmdLog = <<Cmd("connect", "ui"), Cmd("disconnect", "ui")>>
      /\ ucmd["ui"] = "disconnect"
      /\ upc["ui"] = "idle" /\ ucb["ui"] = NoCb )
    => ~isRunning /\ communicationBlocked /\ currentStatus = Disconnected


\* C14 -- Cancellation: an attempt that disconnect() found waiting in state
\* Connecting resolves false, and once that attempt has resolved and the
\* disconnect() has returned (no other command issued) the state is
\* Disconnected, not Error.
C14_CancelledAttemptEndsDisconnected ==
    \A w \in Workers :
        ( /\ cmdLog = <<Cmd("connect", wst[w].owner), Cmd("disconnect", wst[w].owner)>>
          /\ wst[w].interrupted
          /\ wst[w].result \in {"true", "false"}
          /\ wcb[w] = NoCb
          /\ upc[wst[w].owner] = "idle" /\ ucb[wst[w].owner] = NoCb )
        => wst[w].result = "false" /\ currentStatus = Disconnected


\* The steps that continue something already begun: a command past its
\* entry, a connect worker, the client's thread, an owed notification.
ThreadSteps ==
    \/ \E c \in Callers :
          \/ ConnectStatus(c) \/ ConnectSpawn(c)
          \/ DisconnectStatus(c) \/ DisconnectFlag(c)
          \/ StopLock(c) \/ StopJoin(c) \/ StopEvent(c) \/ DisconnectFinal(c)
          \/ PauseResumeLock(c) \/ PauseResumeEvent(c)
          \/ PauseResumeUnlock(c) \/ PauseResumeStatus(c)
          \/ ReconnectEvent(c) \/ ReconnectRestart(c) \/ ReconnectStatus(c)
          \/ CallerDeliverCallback(c)
    \/ \E w \in Workers :
          \/ PrepLoading(w) \/ PrepLoad(w) \/ Fail(w) \/ PrepValid(w)
          \/ InitEstablish(w) \/ InitStart(w) \/ InitGetError(w)
          \/ InitStarted(w) \/ WaitLock(w) \/ WaitStatus(w) \/ WaitEnter(w)
          \/ WaitWake(w) \/ WaitSpurious(w) \/ WaitTimeout(w)
          \/ WaitCancelled(w) \/ WaitTimedOut(w) \/ WaitResult(w)
          \/ WaitReturn(w) \/ Finish(w) \/ WorkerDeliverCallback(w)
    \/ ClientStepCheck \/ ClientStepEmit \/ ClientFinalCheck
    \/ ClientEmitConnected \/ ClientKeepAliveEnd \/ ClientDeliverCallback

\* C15 -- disconnect() never deadlocks against an in-flight connect attempt:
\* while a disconnect() call is between its entry and its return in a live
\* process, some thread can still take a step.
C15_DisconnectNeverStuck ==
    \A c \in Callers :
        (process = "running" /\ ucmd[c] = "disconnect" /\ upc[c] # "idle")
        => ENABLED ThreadSteps


\* C16 -- Every accepted connect() attempt terminates: while the future of an
\* accepted attempt is still unresolved in a live process, some thread can
\* still take a step, so that under fair scheduling the attempt goes on to
\* resolve and to reset connectionInProgress.
C16_AttemptNeverStuck ==
    \A w \in Workers :
        (process = "running" /\ wst[w].result = "pending")
        => ENABLED ThreadSteps


\* C17 -- The connect future resolves true only if the state is Connected at
\* the moment the attempt returns: the step at which an attempt's return
\* value becomes true is taken with the state Connected (and leaves it so),
\* a step out of the tests after wait_for taken with shouldStop set yields
\* false, and an attempt whose configuration failed, whose client was not
\* started or whose wait timed out never resolves true; the future carries
\* the value the attempt returned.
C17_TrueOnlyIfConnected ==
    [][ \A w \in Workers :
          /\ (wst'[w].ret /\ ~wst[w].ret)
                => currentStatus = Connected /\ currentStatus' = Connected
          /\ (wpc[w] = "w_after" /\ wpc'[w] # "w_after" /\ shouldStop)
                => ~wst'[w].ret
          /\ (wst'[w].result = "true")
                => /\ wst'[w].ret
                   /\ ~ConfigFails(wst'[w].path)
                   /\ wst'[w].started
                   /\ wst'[w].completed ]_vars

\* An attempt has returned true and its future has resolved true.
C17_Witness ==
    \E w \in Workers :
        /\ wst[w].result = "true"
        /\ wst[w].ret
        /\ currentStatus = Connected


\* C19 -- Unrecognised events are only logged: handing handleConnectionEvent
\* an event whose name is none of CONNECTED, DISCONNECTED, RECONNECTING,
\* CONNECTING, PAUSED, RESUMED leaves currentStatus and lastError unchanged,
\* wakes no waiter and owes or delivers no observer notification.
C19_UnknownEventOnlyLogged ==
    [][ \A name \in EventNames \ RecognizedEvents :
          (ctpc' = At(name, ctpc.i + 1))
          => UNCHANGED <<currentStatus, lastError, cvSignal, ctcb, observer>> ]_vars

\* An event outside the recognised set arrived while the state was Connecting
\* with an observer registered; the state is still Connecting.
C19_Witness ==
    /\ ctpc.at \in EventNames \ RecognizedEvents
    /\ ctpc.i >= 2
    /\ hasCallback
    /\ currentStatus = Connecting
    /\ ctcb = NoCb


\* C18 -- Fatal transport events: when the client hands the manager
\* AUTH_FAILED, CERT_VERIFY_FAIL or TLS_ERROR while the state is Connecting
\* or Connected, the state becomes Error or Disconnected and communication
\* is blocked.
C18_FatalEventFailsClosed ==
    [][ \A name \in FatalEvents :
          (ctpc' = At(name, ctpc.i + 1) /\ currentStatus \in {Connecting, Connected})
          => currentStatus' \in {Error, Disconnected} /\ communicationBlocked' ]_vars


\* C20 -- Notification ordering per attempt: during a lone connect attempt,
\* once the observer has been handed a terminal status (Connected, Error or
\* Disconnected) it is handed no Connecting and no other terminal status
\* afterwards.
C20_OneTerminalNotification ==
    [][ ( /\ cmdLog' = <<Cmd("connect", "ui")>>
          /\ observer \in {Connected, Error, Disconnected} )
        => observer' = observer ]_vars


\* No command, worker or client step is between an updateStatus and its
\* return, and no notification is owed.
Quiescent ==
    /\ \A c \in Callers : upc[c] = "idle" /\ ucb[c] = NoCb
    /\ \A w \in Workers : wpc[w] = "idle" /\ wcb[w] = NoCb
    /\ ctcb = NoCb
    /\ ctpc.at \in {"none", "connected", "finished"}

\* C21 -- Observers see transitions in the order they were applied: when the
\* manager is quiescent, the last state delivered to the observer equals
\* currentStatus.
C21_LastDeliveredIsCurrent ==
    (process = "running" /\ Quiescent /\ observer # "none")
    => observer = currentStatus


\* C22 -- connect(path), called while no other command is executing, is
\* accepted (an attempt is started) only from Disconnected or Error, and
\* accepting it changes neither communicationBlocked nor killSwitchEnabled.
C22_ConnectAcceptedFromIdleStates ==
    [][ \A c \in Callers :
          ( /\ \A d \in Callers : upc[d] = "idle"
            /\ cmdLog' = Append(cmdLog, Cmd("connect", c)) /\ upc'[c] # "idle" )
          => /\ currentStatus \in {Disconnected, Error}
             /\ UNCHANGED <<communicationBlocked, killSwitchEnabled>> ]_vars


\* The messages initiateConnection hands to handleConnectionComplete after
\* startConnection returned false.
StartErrors ==
    {"Failed to start connection: " \o e :
        e \in {"", "Connection already in progress", "Configuration content is empty"}}

C24_CancelledInPrepareNeverStarts ==
    \A w \in Workers :
        ( /\ wst[w].cancelledEarly
          /\ cmdLog = <<Cmd("connect", wst[w].owner), Cmd("disconnect", "ui")>> )
        => ~isRunning /\ currentStatus # Connected


\* C25 -- pause() with the client stopped and the state Disconnected causes
\* no state re-entry: a lone pause() on the freshly constructed manager writes
\* neither currentStatus nor lastError and owes or delivers no notification.
C25_PauseWhenStoppedIsSilent ==
    (cmdLog = <<Cmd("pause", "ui")>>)
    => /\ currentStatus = Disconnected /\ lastError = ""
       /\ ucb["ui"] = NoCb /\ observer = "none"


\* C26 -- pause() leaves the attempt in flight alone: no step of a pause()
\* call changes connectionInProgress, shouldStop, the cached configuration,
\* the client's running state or thread, or any worker's position, locals or
\* future, and none makes a false wait predicate true.
C26_PauseKeepsAttempt ==
    [][ \A c \in Callers :
          ( \/ cmdLog' = Append(cmdLog, Cmd("pause", c))
            \/ (ucmd[c] = "pause" /\ upc[c] # "idle" /\ upc'[c] # upc[c]) )
          => /\ UNCHANGED <<connectionInProgress, shouldStop, currentConfig,
                            isRunning, clientShouldStop, clientConfig, ctpc,
                            wpc, wst, future>>
             /\ ~WaitPredicate => ~WaitPredicate' ]_vars

\* pause() has returned during an attempt: the worker is still suspended in
\* wait_for and the client still runs.
C26_Witness ==
    /\ Len(cmdLog) = 2 /\ cmdLog[1].op = "connect" /\ cmdLog[2] = Cmd("pause", "ui")
    /\ upc["ui"] = "idle" /\ ucmd["ui"] = "pause"
    /\ \E w \in Workers : wpc[w] = "waiting" /\ wst[w].result = "pending"
    /\ isRunning /\ connectionInProgress /\ ~shouldStop
    /\ lastError = "Connection paused"


\* C27 -- resume() and reconnect() re-enter the await pipeline: once either
\* has returned, with no command issued since, a state that is Connecting
\* can still be left: some thread has a step to take.
C27_ResumedConnectingCanLeave ==
    ( /\ process = "running"
      /\ cmdLog # << >>
      /\ cmdLog[Len(cmdLog)].op \in {"resume", "reconnect"}
      /\ \A c \in Callers : upc[c] = "idle"
      /\ currentStatus = Connecting )
    => ENABLED ThreadSteps


\* C28 -- Gate toggling is race-free: once every call of blockCommunication,
\* unblockCommunication, enableKillSwitch and disableKillSwitch made on the
\* gate's threads has returned, the installed filter is the one the final
\* flags determine.
C28_ToggleRaceFree ==
    ( /\ gateLog # << >>
      /\ \A t \in 1..MaxGateThreads : gpc[t].at = "idle" )
    => firewall = IF ~communicationBlocked THEN removeFirewallRules
                  ELSE IF killSwitchEnabled THEN blockAllTraffic
                  ELSE setupBasicFirewallRules


\* C29 -- A failure of a platform filter operation never escapes the gate and
\* never changes the bookkeeping: a call stores the requested value in its
\* flag when it starts, the step that ends a call, with the platform
\* operation done or failed, leaves both flags as they are, and the process
\* keeps running.
C29_FilterFailureKeepsFlags ==
    [][ /\ process' = "running"
        /\ gateLog' = Append(gateLog, "blockCommunication") => communicationBlocked'
        /\ gateLog' = Append(gateLog, "unblockCommunication") => ~communicationBlocked'
        /\ gateLog' = Append(gateLog, "enableKillSwitch") => killSwitchEnabled'
        /\ gateLog' = Append(gateLog, "disableKillSwitch") => ~killSwitchEnabled'
        /\ \A t \in 1..MaxGateThreads :
              (gpc[t].at = "install" /\ gpc'[t].at = "idle")
              => UNCHANGED <<communicationBlocked, killSwitchEnabled>> ]_vars

\* A lone blockCommunication() has returned with its flag set although the
\* platform call failed: no filter is installed.
C29_Witness ==
    /\ gateLog = <<"blockCommunication">>
    /\ \A t \in 1..MaxGateThreads : gpc[t].at = "idle"
    /\ communicationBlocked
    /\ firewall = "none"
    /\ process = "running"


\* C30 -- secureCleanup() removes every installed filter and is idempotent:
\* from any gate state it leaves no filter installed and both flags as they
\* were, and called on the state an earlier secureCleanup() left it changes
\* neither the flags nor the filter.
C30_SecureCleanupIdempotent ==
    [][ (gateLog' = Append(gateLog, "secureCleanup"))
        => /\ firewall' = removeFirewallRules
           /\ UNCHANGED <<communicationBlocked, killSwitchEnabled>>
           /\ (gateLog # << >> /\ gateLog[Len(gateLog)] = "secureCleanup")
                 => UNCHANGED <<communicationBlocked, killSwitchEnabled, firewall>> ]_vars

\* secureCleanup() was called twice after the kill switch filter had been
\* installed: no filter is installed and the flags are those of before.
C30_Witness ==
    /\ gateLog = <<"enableKillSwitch", "secureCleanup", "secureCleanup">>
    /\ firewall = removeFirewallRules
    /\ communicationBlocked /\ killSwitchEnabled


\* C31 -- allowCommunicationWithoutVpn() has the same effect as
\* unblockCommunication(): the call leaves communicationBlocked false and does
\* not change the connection state.  Stated of the protocol wrapper's
\* operation: the step that completes allowCommunicationWithoutVpn() leaves
\* the gate flag false and currentStatus as it found it.
C31_AllowSameAsUnblock ==
    [][ (p_upc = "a_status" /\ p_upc' = "idle")
        => /\ p_communicationBlocked' = p_communicationBlocked
           /\ p_currentStatus' = p_currentStatus ]_vars


\* C32 -- Teardown at destruction forces disconnect and cleanup: when the
\* manager's destructor has completed, the tunnel client is stopped and no
\* connect worker of that manager is still executing.  Stated of the runs in
\* which one thread issues every command, so that the destructor races no
\* other call.
C32_TeardownStopsEverything ==
    (process = "destroyed" /\ \A i \in 1..Len(cmdLog) : cmdLog[i].by = "ui")
       => /\ ~isRunning /\ ctpc = NotStarted
          /\ \A w \in Workers : wpc[w] = "idle"


\* C33 -- No thread tries to acquire statusMutex while it already holds it:
\* a connect worker whose next statement is a call of updateStatus or of
\* handleConnectionComplete (the status report on entering the wait, the
\* report of a cancellation, the report of a timeout) does not own statusMutex.
C33_NoRelockOfStatusMutex ==
    \A w \in Workers :
       ( \/ wpc[w] = "w_status"
         \/ wpc[w] = "w_after" /\ (shouldStop \/ ~wst[w].completed) )
       => statusMutex # Worker(w)


\* C34 -- A CONNECTED event is never overwritten by the attempt's own progress
\* updates: in a run of a single connect(), once CONNECTED has set the state
\* to Connected, the worker's status writes "Connection initiated
\* successfully" and "Waiting for connection establishment..." do not move
\* the state back to Connecting.
C34_ConnectedNotOverwritten ==
    [][ \A w \in Workers :
          ( /\ cmdLog = <<Cmd("connect", "ui")>>
            /\ wpc[w] \in {"i_started", "w_status"} /\ wpc'[w] # wpc[w]
            /\ currentStatus = Connected )
          => currentStatus' = Connected ]_vars


\* C35 -- reconnect() stops and then restarts the tunnel client with the same
\* configuration.  As stated: if the client was started before with content
\* C, then when reconnectConnection returns the client is running with
\* content C on one freshly started worker thread, and the last event the
\* handler received before the new run is the DISCONNECTED of the stop (it
\* followed RECONNECTING).
C35_ReconnectRestarts ==
    [][ \A c \in Foreground :
          ( /\ ucmd[c] = "reconnect"
            /\ upc[c] = "rc_restart" /\ upc'[c] = "rc_status"
            /\ clientConfig # << >> )
          => /\ isRunning' /\ clientConfig' = clientConfig
             /\ ctpc' = At("check", 1) /\ process' = "running"
             /\ currentStatus = Disconnected
             /\ lastError = "Connection stopped by user" ]_vars

\* C35, amended -- the same, for a client that is running with content C
\* when reconnect() is called: a client that was started and has been
\* stopped since is restarted with content C as well, but emits no
\* DISCONNECTED between RECONNECTING and the events of the new run.
C35_ReconnectRestartsRunning ==
    [][ \A c \in Foreground :
          ( /\ ucmd[c] = "reconnect"
            /\ upc[c] = "rc_restart" /\ upc'[c] = "rc_status"
            /\ clientConfig # << >> )
          => /\ isRunning' /\ clientConfig' = clientConfig
             /\ ctpc' = At("check", 1) /\ process' = "running"
             /\ cmdLog[Len(cmdLog)].ret
                  => /\ currentStatus = Disconnected
                     /\ lastError = "Connection stopped by user" ]_vars

\* reconnect() has returned on a client that was running with the content of
\* good.ovpn: the client runs again with it.
C35_Witness ==
    /\ Len(cmdLog) = 2
    /\ cmdLog[1].op = "startConnection" /\ cmdLog[1].ret
    /\ cmdLog[2].op = "reconnect" /\ cmdLog[2].ret
    /\ upc["ui"] = "idle"
    /\ isRunning /\ clientConfig = FileContent("good.ovpn")
    /\ process = "running"


\* C36 -- The tunnel client's start is a guarded, non-blocking trigger:
\* startConnection returns false and leaves isRunning, shouldStop, the stored
\* config and the worker thread unchanged, setting only lastError, when the
\* client is already running or the content is empty; otherwise it returns
\* true with isRunning = true and the new worker thread at its first step,
\* before any CONNECTED event.
C36_StartIsGuardedTrigger ==
    [][ ( /\ Len(cmdLog') = Len(cmdLog) + 1
          /\ cmdLog'[Len(cmdLog')].op = "startConnection" )
        => LET call == cmdLog'[Len(cmdLog')] IN
           IF isRunning \/ call.arg = << >>
           THEN /\ ~call.ret
                /\ UNCHANGED <<isRunning, clientShouldStop, clientConfig, ctpc,
                               currentStatus>>
                /\ clientLastError' = IF isRunning
                                      THEN "Connection already in progress"
                                      ELSE "Configuration content is empty"
           ELSE /\ call.ret
                /\ isRunning' /\ ~clientShouldStop' /\ clientConfig' = call.arg
                /\ ctpc' = At("check", 1)
                /\ UNCHANGED <<clientLastError, currentStatus>> ]_vars

\* startConnection was accepted once and then refused twice, on the running
\* client and then with empty content: the client still runs with the first
\* content.
C36_Witness ==
    /\ Len(cmdLog) = 3
    /\ \A i \in 1..3 : cmdLog[i].op = "startConnection"
    /\ cmdLog[1].ret /\ ~cmdLog[2].ret /\ ~cmdLog[3].ret
    /\ cmdLog[1].arg = FileContent("good.ovpn")
    /\ cmdLog[2].arg = FileContent("noclient.ovpn")
    /\ cmdLog[3].arg = << >>
    /\ isRunning /\ clientConfig = FileContent("good.ovpn")
    /\ clientLastError = "Connection already in progress"


\* C37 -- Stopping the tunnel client is final and idempotent: the
\* DISCONNECTED event of a stopConnection() on a running client is emitted
\* once, by the step that ends the call, and only when the client's worker
\* thread has finished and been joined, so no CONNECTING or CONNECTED of that
\* run follows it; a stopConnection() on a client that is not running emits
\* no event and changes nothing.
C37_StopIsFinal ==
    [][ /\ (ctpc.at \in {"emit", "connected"} /\ ctpc' # ctpc)
           => ~( /\ cmdLog # << >>
                 /\ cmdLog[Len(cmdLog)].op = "stopConnection"
                 /\ \A c \in Foreground : upc[c] = "idle" )
        /\ \A c \in Foreground :
          (ucmd[c] = "stopConnection" /\ upc[c] # "idle" /\ upc'[c] # upc[c])
          => LET call == cmdLog[Len(cmdLog)] IN
             /\ (upc[c] = "s_lock" /\ ~call.ret)
                   => /\ upc'[c] = "idle"
                      /\ UNCHANGED <<clientVars, currentStatus, lastError>>
             /\ (upc[c] = "s_lock" /\ call.ret)
                   => /\ upc'[c] = "s_join" /\ ~isRunning'
                      /\ UNCHANGED <<currentStatus, lastError>>
             /\ (upc[c] = "s_join")
                   => upc'[c] = "s_event" /\ UNCHANGED <<currentStatus, lastError>>
             /\ (upc[c] = "s_event")
                   => /\ upc'[c] = "idle"
                      /\ ctpc = NotStarted /\ ~isRunning /\ ctcb = NoCb
                      /\ currentStatus' = Disconnected
                      /\ lastError' = "Connection stopped by user" ]_vars

\* A client stopped while it was connecting, and stopped again: the second
\* call found it not running.
C37_Witness ==
    /\ Len(cmdLog) = 3
    /\ cmdLog[1].op = "startConnection" /\ cmdLog[1].ret
    /\ cmdLog[2].op = "stopConnection" /\ cmdLog[2].ret
    /\ cmdLog[3].op = "stopConnection" /\ ~cmdLog[3].ret
    /\ upc["ui"] = "idle"
    /\ ~isRunning /\ ctpc = NotStarted
    /\ currentStatus = Disconnected /\ lastError = "Connection stopped by user"


\* C38 -- validateConfig accepts a configuration exactly when its content
\* contains "remote ", contains "client", and contains at least one of
\* "cert ", "<cert>" or "auth-user-pass"; when it rejects, the error message
\* names the first failed check in that order; the warnings (cipher none,
\* auth none, missing verify-x509-name) never make a configuration invalid
\* and never stop the attempt.
C38_ValidateConfigContract ==
    [][ \A w \in Workers :
          (wpc[w] = "idle" /\ wpc'[w] # "idle")
          => LET content == currentConfig'
                 Has(d) == \E i \in 1..Len(content) : content[i] = d
                 remote == Has("remote ")
                 client == Has("client")
                 creds == Has("cert ") \/ Has("<cert>") \/ Has("auth-user-pass")
                 v == validateConfig(content)
             IN  /\ v.isValid <=> (remote /\ client /\ creds)
                 /\ (wpc'[w] = "p_valid") <=> (remote /\ client /\ creds)
                 /\ (wpc'[w] = "fail") <=> ~(remote /\ client /\ creds)
                 /\ ~remote => wst'[w].msg = "Configuration validation failed: "
                        \o "Configuration missing remote server specification"
                 /\ (remote /\ ~client) => wst'[w].msg =
                        "Configuration validation failed: "
                        \o "Configuration not set for client mode"
                 /\ (remote /\ client /\ ~creds) => wst'[w].msg =
                        "Configuration validation failed: "
                        \o "Configuration missing authentication credentials"
                 /\ (remote /\ client /\ creds)
                       => Len(v.warnings) =
                            (IF Has("cipher none") THEN 1 ELSE 0)
                            + (IF Has("auth none") THEN 1 ELSE 0)
                            + (IF Has("verify-x509-name") THEN 0 ELSE 1) ]_vars

\* A configuration with remote, client and a certificate that also says
\* "cipher none" and lacks verify-x509-name was accepted with two warnings.
C38_Witness ==
    /\ currentConfig = <<"remote ", "client", "cert ", "cipher none">>
    /\ wpc[1] = "p_valid" /\ wst[1].msg = ""
    /\ Len(validateConfig(currentConfig).warnings) = 2


\* C39 -- lastError holds the message of the most recent transition that
\* carried a non-empty message: an updateStatus with an empty message (a
\* CONNECTING event without info) sets currentStatus and owes the observer
\* its notification but leaves lastError as it was, and an updateStatus with
\* a non-empty message sets state and lastError in the same step.
C39_EmptyMessageKeepsLastError ==
    [][ (ctpc' # ctpc /\ ctcb' # NoCb)
        => /\ currentStatus' = ctcb'.st
           /\ lastError' = IF ctcb'.msg = "" THEN lastError ELSE ctcb'.msg ]_vars

\* CONNECTED and then a CONNECTING without info were handled: the state is
\* Connecting and lastError is still the message of CONNECTED.
C39_Witness ==
    /\ ctpc = At("CONNECTING", 2)
    /\ ctcb = [st |-> Connecting, msg |-> ""]
    /\ currentStatus = Connecting
    /\ lastError = "VPN connection established"


\* C40 -- connectVpn fires the connection attempt asynchronously and does
\* not block its caller: once connect has handed back the future, connectVpn
\* can return, whether or not the attempt has resolved.
C40_ConnectVpnDoesNotBlock ==
    (process = "running" /\ p_upc = "cv_wait") => ENABLED connectVpnWait

=============================================================================
